---- MODULE Spec2Model ----
(***************************************************************************)
(* Model of the pm-bot conversation state machine (SlackService), the      *)
(* handlers that ProjectManager wraps around it, and the workflows of      *)
(* ProjectManager and OpenAIService.                                       *)
(*                                                                         *)
(* Chat texts are sequences of one-character strings, so that the code's   *)
(* substring tests, strip(), split() and lower() are computed and not      *)
(* postulated.  A Python dict is a record whose DOMAIN is the set of keys  *)
(* present; the dict of dicts conversation_states is a function whose      *)
(* DOMAIN is the set of users that have an entry.                          *)
(***************************************************************************)
EXTENDS Integers, Sequences, FiniteSets, TLC

(***************************************************************************)
(* Text primitives (Python str methods on ASCII text).                     *)
(***************************************************************************)
Upper26 == <<"A", "B", "C", "D", "E", "F", "G", "H", "I", "J", "K", "L", "M",
             "N", "O", "P", "Q", "R", "S", "T", "U", "V", "W", "X", "Y", "Z">>
Lower26 == <<"a", "b", "c", "d", "e", "f", "g", "h", "i", "j", "k", "l", "m",
             "n", "o", "p", "q", "r", "s", "t", "u", "v", "w", "x", "y", "z">>

WS == {" ", "\n"}

SetMin(S) == CHOOSE x \in S : \A y \in S : x <= y
SetMax(S) == CHOOSE x \in S : \A y \in S : x >= y

UpperSet == {Upper26[i] : i \in 1..26}
LowerSet == {Lower26[i] : i \in 1..26}
LowerOf == [c \in UpperSet |-> Lower26[CHOOSE i \in 1..26 : Upper26[i] = c]]
UpperOf == [c \in LowerSet |-> Upper26[CHOOSE i \in 1..26 : Lower26[i] = c]]

LowerChar(c) == IF c \in UpperSet THEN LowerOf[c] ELSE c
UpperChar(c) == IF c \in LowerSet THEN UpperOf[c] ELSE c

\* str.lower() / str.upper()
ToLower(t) == [i \in 1..Len(t) |-> LowerChar(t[i])]
ToUpper(t) == [i \in 1..Len(t) |-> UpperChar(t[i])]

\* p in t
Contains(t, p) ==
    \E i \in 0..(Len(t) - Len(p)) : SubSeq(t, i + 1, i + Len(p)) = p

\* str.strip()
Strip(t) ==
    LET idx == {i \in 1..Len(t) : t[i] \notin WS}
    IN  IF idx = {} THEN <<>> ELSE SubSeq(t, SetMin(idx), SetMax(idx))

\* len(t.split())
NumTokens(t) ==
    Cardinality({i \in 1..Len(t) : t[i] \notin WS /\ (i = 1 \/ t[i - 1] \in WS)})

\* t.split(sep) for a one-character separator
RECURSIVE SplitOn(_, _)
SplitOn(t, sep) ==
    IF \A i \in 1..Len(t) : t[i] # sep
    THEN <<t>>
    ELSE LET k == SetMin({i \in 1..Len(t) : t[i] = sep})
         IN  <<SubSeq(t, 1, k - 1)>> \o SplitOn(SubSeq(t, k + 1, Len(t)), sep)

\* [x.strip() for x in value.split(',') if x.strip()]
RECURSIVE StripNonEmpty(_)
StripNonEmpty(parts) ==
    IF parts = <<>> THEN <<>>
    ELSE LET h == Strip(Head(parts))
         IN  (IF h = <<>> THEN <<>> ELSE <<h>>) \o StripNonEmpty(Tail(parts))

\* dict[k] = v
With(d, k, v) == (k :> v) @@ d

\* dict.get(k) for the string-valued keys "step" and "substep"
GetStr(d, k) == IF k \in DOMAIN d THEN d[k] ELSE "None"

(***************************************************************************)
(* Words the handlers look for.                                            *)
(***************************************************************************)
Word ==
    [hi |-> <<"h", "i">>,
     hello |-> <<"h", "e", "l", "l", "o">>,
     hey |-> <<"h", "e", "y">>,
     start |-> <<"s", "t", "a", "r", "t">>,
     help |-> <<"h", "e", "l", "p">>,
     what_can_you_do |-> <<"w", "h", "a", "t", " ", "c", "a", "n", " ", "y", "o", "u", " ", "d", "o">>,
     done |-> <<"d", "o", "n", "e">>,
     finished |-> <<"f", "i", "n", "i", "s", "h", "e", "d">>,
     complete |-> <<"c", "o", "m", "p", "l", "e", "t", "e">>,
     bye |-> <<"b", "y", "e">>,
     goodbye |-> <<"g", "o", "o", "d", "b", "y", "e">>,
     thanks |-> <<"t", "h", "a", "n", "k", "s">>,
     thank_you |-> <<"t", "h", "a", "n", "k", " ", "y", "o", "u">>,
     thats_all |-> <<"t", "h", "a", "t", "'", "s", " ", "a", "l", "l">>,
     exit |-> <<"e", "x", "i", "t">>,
     quit |-> <<"q", "u", "i", "t">>,
     title |-> <<"t", "i", "t", "l", "e">>,
     name |-> <<"n", "a", "m", "e">>,
     description |-> <<"d", "e", "s", "c", "r", "i", "p", "t", "i", "o", "n">>,
     desc |-> <<"d", "e", "s", "c">>,
     features |-> <<"f", "e", "a", "t", "u", "r", "e", "s">>,
     feature |-> <<"f", "e", "a", "t", "u", "r", "e">>,
     priority |-> <<"p", "r", "i", "o", "r", "i", "t", "y">>,
     prio |-> <<"p", "r", "i", "o">>,
     labels |-> <<"l", "a", "b", "e", "l", "s">>,
     label |-> <<"l", "a", "b", "e", "l">>,
     confirm |-> <<"c", "o", "n", "f", "i", "r", "m">>,
     edit |-> <<"e", "d", "i", "t">>,
     epic |-> <<"e", "p", "i", "c">>,
     create |-> <<"c", "r", "e", "a", "t", "e">>,
     document |-> <<"d", "o", "c", "u", "m", "e", "n", "t">>,
     hld |-> <<"h", "l", "d">>,
     prd |-> <<"p", "r", "d">>,
     file |-> <<"f", "i", "l", "e">>,
     confluence |-> <<"c", "o", "n", "f", "l", "u", "e", "n", "c", "e">>,
     meeting |-> <<"m", "e", "e", "t", "i", "n", "g">>,
     process |-> <<"p", "r", "o", "c", "e", "s", "s">>,
     search |-> <<"s", "e", "a", "r", "c", "h">>,
     simple |-> <<"s", "i", "m", "p", "l", "e">>,
     analyze |-> <<"a", "n", "a", "l", "y", "z", "e">>,
     cancel |-> <<"c", "a", "n", "c", "e", "l">>,
     approve |-> <<"a", "p", "p", "r", "o", "v", "e">>,
     reject |-> <<"r", "e", "j", "e", "c", "t">>,
     requirement |-> <<"r", "e", "q", "u", "i", "r", "e", "m", "e", "n", "t">>,
     product |-> <<"p", "r", "o", "d", "u", "c", "t">>,
     notes |-> <<"n", "o", "t", "e", "s">>,
     discussion |-> <<"d", "i", "s", "c", "u", "s", "s", "i", "o", "n">>,
     wiki |-> <<"w", "i", "k", "i">>,
     http |-> <<"h", "t", "t", "p", ":", "/", "/">>,
     https |-> <<"h", "t", "t", "p", "s", ":", "/", "/">>,
     pages |-> <<"/", "p", "a", "g", "e", "s", "/">>,
     spaces |-> <<"/", "w", "i", "k", "i", "/", "s", "p", "a", "c", "e", "s", "/">>]
Medium == <<"M", "e", "d", "i", "u", "m">>

greetings == {Word.hi, Word.hello, Word.hey, Word.start, Word.help, Word.what_can_you_do}

done_phrases == {Word.done, Word.finished, Word.complete, Word.bye, Word.goodbye, Word.thanks,
                 Word.thank_you, Word.thats_all, Word.exit, Word.quit}

document_words == {Word.document, Word.hld, Word.prd, Word.file, Word.confluence, Word.meeting}

(***************************************************************************)
(* The chat texts users send.                                              *)
(***************************************************************************)
Text ==
    [hi |->   \* "hi"
        <<"h", "i">>,
     one |->   \* "1"
        <<"1">>,
     epic |->   \* "Title: Auth\nDescription: login flows"
        <<"T", "i", "t", "l", "e", ":", " ", "A", "u", "t", "h", "\n", "D", "e", "s", "c", "r", "i", "p", "t", "i", "o", "n", ":", " ", "l", "o", "g", "i", "n", " ", "f", "l", "o", "w", "s">>,
     confirm |->   \* "confirm"
        <<"c", "o", "n", "f", "i", "r", "m">>,
     confirm3 |->   \* "ok confirm it"
        <<"o", "k", " ", "c", "o", "n", "f", "i", "r", "m", " ", "i", "t">>,
     confirm_this |->   \* "confirm this epic"
        <<"c", "o", "n", "f", "i", "r", "m", " ", "t", "h", "i", "s", " ", "e", "p", "i", "c">>,
     done |->   \* "done"
        <<"d", "o", "n", "e">>,
     done3 |->   \* "i am done"
        <<"i", " ", "a", "m", " ", "d", "o", "n", "e">>,
     edit3 |->   \* "ok edit it"
        <<"o", "k", " ", "e", "d", "i", "t", " ", "i", "t">>,
     opt1 |->   \* "option 1 pls"
        <<"o", "p", "t", "i", "o", "n", " ", "1", " ", "p", "l", "s">>,
     docs |->   \* "epic from prd"
        <<"e", "p", "i", "c", " ", "f", "r", "o", "m", " ", "p", "r", "d">>,
     opt2 |->   \* "option 2 pls"
        <<"o", "p", "t", "i", "o", "n", " ", "2", " ", "p", "l", "s">>,
     opt3 |->   \* "option 3 pls"
        <<"o", "p", "t", "i", "o", "n", " ", "3", " ", "p", "l", "s">>,
     opt4 |->   \* "option 4 pls"
        <<"o", "p", "t", "i", "o", "n", " ", "4", " ", "p", "l", "s">>,
     xyz |->   \* "x y z"
        <<"x", " ", "y", " ", "z">>,
     link |->   \* "https://a.wiki/pages/7/x"
        <<"h", "t", "t", "p", "s", ":", "/", "/", "a", ".", "w", "i", "k", "i", "/", "p", "a", "g", "e", "s", "/", "7", "/", "x">>,
     epicf |->   \* "Title: A\nDescription: d\nFeatures: f1, f2"
        <<"T", "i", "t", "l", "e", ":", " ", "A", "\n", "D", "e", "s", "c", "r", "i", "p", "t", "i", "o", "n", ":", " ", "d", "\n", "F", "e", "a", "t", "u", "r", "e", "s", ":", " ", "f", "1", ",", " ", "f", "2">>,
     see_wiki |->   \* "see https://b.wiki/x now"
        <<"s", "e", "e", " ", "h", "t", "t", "p", "s", ":", "/", "/", "b", ".", "w", "i", "k", "i", "/", "x", " ", "n", "o", "w">>,
     and_wiki |->   \* "and https://c.wiki/y too"
        <<"a", "n", "d", " ", "h", "t", "t", "p", "s", ":", "/", "/", "c", ".", "w", "i", "k", "i", "/", "y", " ", "t", "o", "o">>,
     search_notes |->   \* "search meeting notes"
        <<"s", "e", "a", "r", "c", "h", " ", "m", "e", "e", "t", "i", "n", "g", " ", "n", "o", "t", "e", "s">>,
     search_sprint |->   \* "search sprint reviews"
        <<"s", "e", "a", "r", "c", "h", " ", "s", "p", "r", "i", "n", "t", " ", "r", "e", "v", "i", "e", "w", "s">>,
     sprint_opts |->   \* "sprint space=PROJ days=14"
        <<"s", "p", "r", "i", "n", "t", " ", "s", "p", "a", "c", "e", "=", "P", "R", "O", "J", " ", "d", "a", "y", "s", "=", "1", "4">>]


Texts == {Text.hi, Text.one, Text.epic, Text.confirm, Text.confirm3, Text.confirm_this, Text.done,
          Text.done3, Text.edit3, Text.opt1, Text.docs, Text.opt2, Text.opt3, Text.opt4, Text.xyz,
          Text.see_wiki}

Users == {"u1", "u2"}

\* the calls one conversation turn makes to the chat platform (say,
\* conversations_open) that may raise, by position
MaxCalls == 2
\* detached tasks in flight
MaxTasks == 1

VARIABLES
    conversation_states,   \* SlackService.conversation_states
    epic_proposals,        \* <<SlackService.epic_proposals>>, <<>> while the attribute is not set
    tasks                  \* coroutines started and not yet finished, each
                           \* with its position and the port calls it made

vars == <<conversation_states, epic_proposals, tasks>>

(***************************************************************************)
(* SlackService: pure helpers.                                             *)
(***************************************************************************)
is_greeting_or_initial(text) ==
    \/ NumTokens(text) <= 2
    \/ \E text_lower \in {ToLower(text)} :
          \E g \in greetings : Contains(text_lower, g)

is_done_message(text) ==
    \E text_lower \in {ToLower(text)} :
       \E p \in done_phrases : Contains(text_lower, p)

\* one line of _parse_epic_request applied to the dict built so far
parse_epic_field(key, value, epic_data) ==
    IF key \in {Word.title, Word.name}
        THEN With(epic_data, "title", value)
    ELSE IF key \in {Word.description, Word.desc}
        THEN With(epic_data, "description", value)
    ELSE IF key \in {Word.features, Word.feature}
        THEN With(epic_data, "preferred_features",
                  StripNonEmpty(SplitOn(value, ",")))
    ELSE IF key \in {Word.priority, Word.prio}
        THEN With(epic_data, "priority", value)
    ELSE IF key \in {Word.labels, Word.label}
        THEN With(epic_data, "labels",
                  StripNonEmpty(SplitOn(value, ",")))
    ELSE epic_data

\* key, value = line.split(':', 1) at the first colon, at position k
parse_epic_colon(line, k, epic_data) ==
    parse_epic_field(ToLower(Strip(SubSeq(line, 1, k - 1))),
                     Strip(SubSeq(line, k + 1, Len(line))), epic_data)

parse_epic_stripped(line, epic_data) ==
    IF ~Contains(line, <<":">>) THEN epic_data
    ELSE parse_epic_colon(line, SetMin({i \in 1..Len(line) : line[i] = ":"}),
                          epic_data)

parse_epic_line(line0, epic_data) == parse_epic_stripped(Strip(line0), epic_data)

RECURSIVE parse_epic_lines(_, _)
parse_epic_lines(lines, epic_data) ==
    IF lines = <<>> THEN epic_data
    ELSE parse_epic_lines(Tail(lines), parse_epic_line(Head(lines), epic_data))

\* the check of the required fields, were the title alone required
required_fields_title_only(epic_data) ==
    IF "title" \notin DOMAIN epic_data THEN <<>> ELSE <<epic_data>>

\* _parse_epic_request: <<>> is None, <<d>> the dict d
required_fields(epic_data) ==
    IF "title" \notin DOMAIN epic_data \/ "description" \notin DOMAIN epic_data
    THEN <<>>
    ELSE <<epic_data>>

parse_epic_request(text) ==
    required_fields(parse_epic_lines(SplitOn(text, "\n"), <<>>))

\* EpicRequest(**epic_data): the pydantic defaults fill the absent keys
EpicRequest(d) ==
    [title              |-> d.title,
     description        |-> d.description,
     preferred_features |-> IF "preferred_features" \in DOMAIN d
                            THEN d.preferred_features ELSE <<>>,
     priority           |-> IF "priority" \in DOMAIN d THEN d.priority ELSE Medium,
     labels             |-> IF "labels" \in DOMAIN d THEN d.labels ELSE <<>>]

(***************************************************************************)
(* One conversation turn is evaluated on a context c: the conversation     *)
(* store, the chat messages handed to say so far, the number of calls made *)
(* to the chat platform (say, conversations_open), whether an exception is *)
(* propagating, the value returned by the last handler (<<>> is None), and *)
(* the coroutines started.  c.fails holds the positions of the calls that  *)
(* raise in this turn.  A statement reached while an exception propagates  *)
(* is not executed.                                                        *)
(***************************************************************************)
Ctx(conv, fails) ==
    [conv |-> conv, said |-> <<>>, n |-> 0, exc |-> FALSE, ret |-> <<>>,
     spawn |-> <<>>, fails |-> fails]

\* await say(m)
Say(c, m) ==
    IF c.exc THEN c
    ELSE [c EXCEPT !.said = Append(@, m), !.n = @ + 1,
                   !.exc = (c.n + 1) \in c.fails]

SetEntry_alone(conv, u, s) == [v \in {u} |-> s]

\* self.conversation_states[u] = s
SetEntry(conv, u, s) ==
    [v \in (DOMAIN conv) \cup {u} |-> IF v = u THEN s ELSE conv[v]]

DelEntry(conv, u) == [v \in (DOMAIN conv) \ {u} |-> conv[v]]

\* self.conversation_states[u] = s, and state[k] = v on the dict stored there
Put(c, u, s) == IF c.exc THEN c ELSE [c EXCEPT !.conv = SetEntry(@, u, s)]

\* return v
Return(c, v) == IF c.exc THEN c ELSE [c EXCEPT !.ret = v]

\* asyncio.create_task(coroutine), or a coroutine the handler goes on to await
Spawn(c, p) == IF c.exc THEN c ELSE [c EXCEPT !.spawn = Append(@, p)]

\* await self.slack_service.app.client.conversations_open(users=user_id)
Open(c) ==
    IF c.exc THEN c
    ELSE [c EXCEPT !.n = @ + 1, !.exc = (c.n + 1) \in c.fails]

\* the rest of the try block of an enhanced handler once conversations_open
\* has been called in o: the coroutines ps are started, or the except clause
\* says sorry
opened(o, ps, sorry) ==
    IF o.exc THEN Say([o EXCEPT !.exc = FALSE], sorry)
    ELSE [o EXCEPT !.spawn = @ \o ps]

\* try: conversations_open, start ps; except: say(sorry)
open_and_start(r, ps, sorry) == opened(Open(r), ps, sorry)

Msg(m) == [msg |-> m]

AwaitingChoice == [step |-> "awaiting_choice"]

start_conversation_keeping(c, u) ==
    Say(Put(c, u, IF u \in DOMAIN c.conv
                  THEN With(c.conv[u], "step", "awaiting_choice")
                  ELSE AwaitingChoice),
        Msg("main_menu"))

\* SlackService._start_conversation
start_conversation(c, u) == Say(Put(c, u, AwaitingChoice), Msg("main_menu"))

\* SlackService._end_conversation
end_conversation(c, u) ==
    Say(IF c.exc THEN c ELSE [c EXCEPT !.conv = DelEntry(@, u)], Msg("farewell"))

\* SlackService._handle_user_choice
handle_user_choice(c, u, text) ==
    LET text_lower == ToLower(text)
    IN  IF Contains(text, <<"1">>) \/ Contains(text_lower, Word.epic)
                                   \/ Contains(text_lower, Word.create)
        THEN IF \E w \in document_words : Contains(text_lower, w)
             THEN Say(Put(c, u, [step |-> "document_epic_creation",
                                 substep |-> "awaiting_documents"]),
                      Msg("document_intake_prompt"))
             ELSE Say(Put(c, u, [step |-> "epic_creation",
                                 substep |-> "awaiting_details"]),
                      Msg("epic_format_prompt"))
        ELSE IF Contains(text, <<"2">>) \/ Contains(text_lower, Word.process)
                                        \/ Contains(text_lower, Word.meeting)
        THEN Say(Put(c, u, [step |-> "meeting_processing",
                            substep |-> "awaiting_space"]),
                 Msg("space_prompt"))
        ELSE IF Contains(text, <<"3">>) \/ Contains(text_lower, Word.search)
        THEN Say(Put(c, u, [step |-> "meeting_search",
                            substep |-> "awaiting_keyword"]),
                 Msg("keyword_prompt"))
        ELSE IF Contains(text, <<"4">>) \/ Contains(text_lower, Word.help)
        THEN Say(c, Msg("detailed_help"))
        ELSE Say(c, Msg("retry_prompt"))

\* the confirmation summary of _handle_epic_creation_flow
EpicSummary(epic_data) ==
    [msg         |-> "epic_confirmation",
     title       |-> epic_data.title,
     description |-> epic_data.description,
     priority    |-> IF "priority" \in DOMAIN epic_data
                     THEN epic_data.priority ELSE Medium]

\* substep awaiting_details of _handle_epic_creation_flow, epic_data parsed
epic_details_turn(c, u, epic_data) ==
    IF epic_data = <<>>
    THEN Say(c, Msg("invalid_epic_format"))
    ELSE Say(Put(c, u, With(With(c.conv[u], "epic_data", epic_data[1]),
                            "substep", "confirming")),
             EpicSummary(epic_data[1]))

\* SlackService._handle_epic_creation_flow
handle_epic_creation_flow(c, u, text) ==
    LET state == c.conv[u]
    IN  IF GetStr(state, "substep") = "awaiting_details"
        THEN epic_details_turn(c, u, parse_epic_request(text))
        ELSE IF GetStr(state, "substep") = "confirming"
        THEN IF Contains(ToLower(text), Word.confirm)
             THEN Return(Put(Say(c, Msg("creating_epic")), u, AwaitingChoice),
                         IF "epic_data" \in DOMAIN state
                         THEN <<state.epic_data>> ELSE <<>>)
             ELSE IF Contains(ToLower(text), Word.edit)
             THEN Say(Put(c, u, With(state, "substep", "awaiting_details")),
                      Msg("epic_reprompt"))
             ELSE Say(c, Msg("epic_confirm_hint"))
        ELSE c

invalid_space_key_short_only(space_key) == Len(space_key) < 2

\* len(space_key) < 2 or len(space_key) > 10
invalid_space_key(space_key) == Len(space_key) < 2 \/ Len(space_key) > 10

\* SlackService._handle_meeting_processing_flow
handle_meeting_processing_flow(c, u, text) ==
    LET state == c.conv[u]
    IN  IF GetStr(state, "substep") = "awaiting_space"
        THEN LET space_key == ToUpper(Strip(text))
             IN  IF invalid_space_key(space_key)
                 THEN Say(c, Msg("invalid_space_key"))
                 ELSE Say(Put(c, u, With(With(state, "space_key", space_key),
                                         "substep", "confirming")),
                          [msg |-> "space_confirmation", space_key |-> space_key])
        ELSE IF GetStr(state, "substep") = "confirming"
        THEN IF Contains(ToLower(text), Word.confirm)
             THEN Return(Put(Say(c, Msg("processing_meetings")), u, AwaitingChoice),
                         <<[action |-> "process_meetings",
                            space_key |-> IF "space_key" \in DOMAIN state
                                          THEN <<state.space_key>> ELSE <<>>]>>)
             ELSE Say(c, Msg("meeting_confirm_hint"))
        ELSE c

\* SlackService._handle_meeting_search_flow
handle_meeting_search_flow(c, u, text) ==
    LET state == c.conv[u]
    IN  IF GetStr(state, "substep") = "awaiting_keyword"
        THEN LET keyword == Strip(text)
             IN  IF keyword = <<>>
                 THEN Say(c, Msg("invalid_keyword"))
                 ELSE Say(Put(c, u, With(With(state, "keyword", keyword),
                                         "substep", "confirming")),
                          [msg |-> "keyword_confirmation", keyword |-> keyword])
        ELSE IF GetStr(state, "substep") = "confirming"
        THEN IF Contains(ToLower(text), Word.confirm)
             THEN Return(Put(Say(c, Msg("searching_meetings")), u, AwaitingChoice),
                         <<[action |-> "search_meetings",
                            keyword |-> IF "keyword" \in DOMAIN state
                                        THEN <<state.keyword>> ELSE <<>>]>>)
             ELSE Say(c, Msg("search_confirm_hint"))
        ELSE c

\* the maximal runs of non-whitespace characters of t, in order
RECURSIVE Tokens(_)
Tokens(t) ==
    LET s == {i \in 1..Len(t) : t[i] \notin WS}
    IN  IF s = {} THEN <<>>
        ELSE LET a == SetMin(s)
                 e == IF \E i \in a..Len(t) : t[i] \in WS
                      THEN SetMin({i \in a..Len(t) : t[i] \in WS}) - 1
                      ELSE Len(t)
             IN  <<SubSeq(t, a, e)>> \o Tokens(SubSeq(t, e + 1, Len(t)))

StartsAt(t, i, p) == i + Len(p) - 1 <= Len(t) /\ SubSeq(t, i, i + Len(p) - 1) = p

\* re.findall(r'https?://[^\s]+(?:confluence|wiki)[^\s]*', tok) on one token:
\* the leftmost scheme that is followed, after at least one character, by
\* "confluence" or "wiki"; the match runs to the end of the token
LinkIn(tok) ==
    LET starts == {i \in 1..Len(tok) :
                     \E sch \in {Word.http, Word.https} :
                        /\ StartsAt(tok, i, sch)
                        /\ \E w \in {Word.confluence, Word.wiki} :
                              \E j \in (i + Len(sch) + 1)..Len(tok) : StartsAt(tok, j, w)}
    IN  IF starts = {} THEN <<>> ELSE <<SubSeq(tok, SetMin(starts), Len(tok))>>

RECURSIVE LinksOf(_)
LinksOf(toks) ==
    IF toks = <<>> THEN <<>> ELSE LinkIn(Head(toks)) \o LinksOf(Tail(toks))

\* re.findall(confluence_pattern, text)
confluence_links_in(text) == LinksOf(Tokens(text))

\* a pasted text longer than this counts as a document
DocMinLen == 200

\* the documents dict _handle_document_epic_flow builds from one message
collect_documents(text) ==
    LET links == confluence_links_in(text)
        tl    == ToLower(text)
        long  == Len(text) > DocMinLen /\ links = <<>>
        prd   == \E k \in {Word.requirement, Word.prd, Word.product} : Contains(tl, k)
        mtg   == \E k \in {Word.meeting, Word.notes, Word.discussion} : Contains(tl, k)
    IN  [confluence_links |-> links,
         prd_documents    |-> IF long /\ prd THEN <<text>> ELSE <<>>,
         meeting_notes    |-> IF long /\ ~prd /\ mtg THEN <<text>> ELSE <<>>,
         attachments      |-> IF long /\ ~prd /\ ~mtg THEN <<text>> ELSE <<>>]

\* sum(len(docs) for docs in documents.values())
total_docs(documents) ==
    Len(documents.confluence_links) + Len(documents.prd_documents)
        + Len(documents.meeting_notes) + Len(documents.attachments)

\* hasattr(state, 'documents') for the dict state: a dict has no such attribute
hasattr_documents(state) == FALSE

\* lines 667-675: the documents stored in the state after this turn
store_documents(state, documents) ==
    IF ~hasattr_documents(state)
    THEN With(state, "documents", documents)
    ELSE With(state, "documents",
              [k \in DOMAIN documents |->
                  (IF k \in DOMAIN state.documents THEN state.documents[k] ELSE <<>>)
                      \o documents[k]])

DocSummary(documents) ==
    [msg              |-> "documents_collected",
     confluence_links |-> Len(documents.confluence_links),
     prd_documents    |-> Len(documents.prd_documents),
     meeting_notes    |-> Len(documents.meeting_notes),
     attachments      |-> Len(documents.attachments)]

(***************************************************************************)
(* Coroutines.  A coroutine is a record: kind names the function, user the *)
(* user it was started for, pc the port call it is waiting for, log the    *)
(* port calls made so far with their outcomes.                             *)
(***************************************************************************)
\* hasattr(self.slack_service, 'epic_proposals') and user_id in self.slack_service.epic_proposals:
\* props is <<>> while the attribute is not set, and <<f>> once it holds the dict f
HasProposals(props, u) == props # <<>> /\ u \in DOMAIN props[1]

\* days_back of search_and_process_meetings and of the conversational search
DefaultDaysBack == 30

\* self._process_epic_creation(epic_request, channel, user_id)
EpicTask(u, req) ==
    [kind |-> "epic", user |-> u, pc |-> "start", req |-> req]

\* self.process_epic_creation_from_documents(user_id, channel, documents)
DocsTask(u, documents) ==
    [kind |-> "docs", user |-> u, pc |-> "start",
     documents |-> documents]

\* self._process_meetings_command_conversational(space_key, channel, user_id)
MeetingsTask(u, space) ==
    [kind |-> "meetings", user |-> u, pc |-> "start",
     conversational |-> TRUE, search |-> FALSE, meeting_id |-> <<>>,
     keyword |-> <<>>, confluence_space |-> space]

\* self._search_meetings_command_conversational(keyword, None, 30, channel, user_id)
SearchTask(u, keyword, space, days_back) ==
    [kind |-> "meetings", user |-> u, pc |-> "start",
     conversational |-> TRUE, search |-> TRUE, meeting_id |-> <<>>,
     keyword |-> keyword, confluence_space |-> space, days_back |-> days_back]

\* self.handle_epic_approval_response(user_id, response, channel)
ApprovalTask(u, response) ==
    [kind |-> "approval", user |-> u, pc |-> "start",
     response |-> response]

\* self.regenerate_epics_with_feedback(user_id, channel, original_proposals, feedback)
RegenerateTask(u, original_proposals, feedback) ==
    [kind |-> "regenerate", user |-> u, pc |-> "start",
     original_proposals |-> original_proposals, feedback |-> feedback]

process_confirmed_epic_reparsed(r, u) ==
    IF r.exc \/ r.ret = <<>> \/ DOMAIN r.ret[1] = {}
    THEN [r EXCEPT !.ret = <<>>]
    ELSE open_and_start([r EXCEPT !.ret = <<>>],
                        <<EpicTask(u, EpicRequest([title |-> r.ret[1].title,
                                                   description |-> <<>>]))>>,
                        Msg("sorry_epic"))

\* ProjectManager.enhanced_handle_epic_creation around the handler above
process_confirmed_epic(r, u) ==
    IF r.exc \/ r.ret = <<>> \/ DOMAIN r.ret[1] = {}
    THEN [r EXCEPT !.ret = <<>>]
    ELSE open_and_start([r EXCEPT !.ret = <<>>],
                        <<EpicTask(u, EpicRequest(r.ret[1]))>>, Msg("sorry_epic"))

enhanced_handle_epic_creation(c, u, text) ==
    process_confirmed_epic(handle_epic_creation_flow(c, u, text), u)

\* SlackService._handle_document_epic_flow, awaiting_documents, not "simple"
collect_reply(c, u, stored) ==
    IF total_docs(stored.documents) = 0
    THEN Say(Put(c, u, stored), Msg("no_documents"))
    ELSE Put(Say(Put(c, u, stored), DocSummary(stored.documents)), u,
             With(stored, "substep", "confirming_documents"))

collect_turn(c, u, text) ==
    collect_reply(c, u, store_documents(c.conv[u], collect_documents(text)))

\* SlackService._handle_document_epic_flow in substep awaiting_documents; the
\* re-entrant call goes through the attribute of the instance, which holds the
\* enhanced handler, and its result is dropped
awaiting_documents_turn(c, u, text) ==
    IF ToLower(text) = Word.simple
    THEN Return(enhanced_handle_epic_creation(
                    Say(Put(c, u, [step |-> "epic_creation",
                                   substep |-> "awaiting_details"]),
                        Msg("switching_to_simple")),
                    u, <<>>),
                <<>>)
    ELSE collect_turn(c, u, text)

\* SlackService._handle_document_epic_flow; in confirming_documents any other
\* text sets the substep back and re-enters the handler
handle_document_epic_flow(c, u, text) ==
    LET state == c.conv[u]
    IN  IF GetStr(state, "substep") = "awaiting_documents"
        THEN awaiting_documents_turn(c, u, text)
        ELSE IF GetStr(state, "substep") = "confirming_documents"
        THEN IF ToLower(text) = Word.analyze
             THEN Return(Say(c, Msg("processing_documents")), <<state.documents>>)
             ELSE IF ToLower(text) = Word.cancel
             THEN start_conversation(Say(c, Msg("analysis_cancelled")), u)
             ELSE awaiting_documents_turn(
                      Put(c, u, With(state, "substep", "awaiting_documents")), u, text)
        ELSE c

\* ProjectManager.enhanced_handle_document_epic
process_collected_documents(r, u) ==
    IF r.exc \/ r.ret = <<>> \/ total_docs(r.ret[1]) = 0
    THEN [r EXCEPT !.ret = <<>>]
    ELSE open_and_start([r EXCEPT !.ret = <<>>],
                        <<DocsTask(u, r.ret[1])>>, Msg("sorry_documents"))

enhanced_handle_document_epic(c, u, text) ==
    process_collected_documents(handle_document_epic_flow(c, u, text), u)

\* ProjectManager.enhanced_handle_meeting_processing
process_confirmed_meetings(r, u) ==
    IF r.exc \/ r.ret = <<>>
    THEN [r EXCEPT !.ret = <<>>]
    ELSE open_and_start([r EXCEPT !.ret = <<>>],
                        <<MeetingsTask(u, r.ret[1].space_key)>>,
                        Msg("sorry_meetings"))

enhanced_handle_meeting_processing(c, u, text) ==
    process_confirmed_meetings(handle_meeting_processing_flow(c, u, text), u)

\* ProjectManager.enhanced_handle_meeting_search: the search is started with
\* confluence_space None and days_back 30
process_confirmed_search(r, u) ==
    IF r.exc \/ r.ret = <<>>
    THEN [r EXCEPT !.ret = <<>>]
    ELSE open_and_start([r EXCEPT !.ret = <<>>],
                        <<SearchTask(u, r.ret[1].keyword, <<>>, DefaultDaysBack)>>,
                        Msg("sorry_search"))

enhanced_handle_meeting_search(c, u, text) ==
    process_confirmed_search(handle_meeting_search_flow(c, u, text), u)

\* SlackService._handle_epic_approval with ProjectManager.enhanced_handle_epic_approval:
\* the handler goes on to await handle_epic_approval_response
enhanced_handle_epic_approval(c, u, text) ==
    open_and_start(c, <<ApprovalTask(u, text)>>, Msg("sorry_response"))

\* SlackService._handle_epic_feedback with ProjectManager.enhanced_handle_epic_feedback
regenerate_with_feedback(r, u, text) ==
    IF r.exc THEN r
    ELSE open_and_start(r,
                        IF HasProposals(epic_proposals, u)
                        THEN <<RegenerateTask(u, epic_proposals[1][u].proposals, text)>>
                        ELSE <<>>,
                        Msg("sorry_feedback"))

enhanced_handle_epic_feedback(c, u, text) ==
    IF Strip(text) = <<>>
    THEN Say(c, Msg("feedback_needed"))
    ELSE regenerate_with_feedback(
             Say(Put(c, u, With(c.conv[u], "feedback", text)),
                 Msg("feedback_received")),
             u, text)

on_handler_exception_resetting(c) ==
    Say([c EXCEPT !.exc = FALSE,
                  !.conv = [v \in DOMAIN c.conv |-> AwaitingChoice]],
        Msg("apology"))

\* the except clause of _handle_conversational_message
on_handler_exception(c) == Say([c EXCEPT !.exc = FALSE], Msg("apology"))

\* which branch of _handle_conversational_message takes the message
route(conv, u, text) ==
    IF is_greeting_or_initial(text) \/ u \notin DOMAIN conv THEN "greeting"
    ELSE IF is_done_message(text) THEN "done"
    ELSE IF GetStr(conv[u], "step") \in
              {"awaiting_choice", "epic_creation", "meeting_processing",
               "meeting_search", "document_epic_creation",
               "awaiting_epic_approval", "collecting_epic_feedback"}
         THEN conv[u].step
    ELSE "default"

\* the branch of the try block of _handle_conversational_message named current
dispatch_to(current, c, u, text) ==
    CASE current = "greeting"                 -> start_conversation(c, u)
      [] current = "done"                     -> end_conversation(c, u)
      [] current = "awaiting_choice"          -> handle_user_choice(c, u, text)
      [] current = "epic_creation"            -> enhanced_handle_epic_creation(c, u, text)
      [] current = "meeting_processing"       -> enhanced_handle_meeting_processing(c, u, text)
      [] current = "meeting_search"           -> enhanced_handle_meeting_search(c, u, text)
      [] current = "document_epic_creation"   -> enhanced_handle_document_epic(c, u, text)
      [] current = "awaiting_epic_approval"   -> enhanced_handle_epic_approval(c, u, text)
      [] current = "collecting_epic_feedback" -> enhanced_handle_epic_feedback(c, u, text)
      [] OTHER                                -> start_conversation(c, u)

\* the try block of SlackService._handle_conversational_message
dispatch_message(c, u, text) == dispatch_to(route(c.conv, u, text), c, u, text)

\* the try block has ended in the context r: the except clause runs when an
\* exception is propagating
after_dispatch(r) == IF r.exc THEN on_handler_exception(r) ELSE r

\* SlackService._handle_conversational_message on an event with this text
handle_conversational_message(c, u, text0) ==
    after_dispatch(dispatch_message(c, u, Strip(text0)))

(***************************************************************************)
(* What the ports answer.                                                  *)
(***************************************************************************)
Digits == <<"1", "2", "3", "4", "5", "6", "7", "8", "9">>

\* features a generation call returns
MaxFeatures == 1
Feature(i) == <<"f", Digits[i]>>
GeneratedFeatures == {[i \in 1..n |-> Feature(i)] : n \in 0..MaxFeatures}

\* keys the issue tracker hands out
EpicKeys == {"K1", "K2"}

\* meetings a retrieval returns
MaxMeetings == 2
MeetingLists == {[i \in 1..n |-> [meeting_id |-> i]] : n \in 0..MaxMeetings}

\* one step of a coroutine: the coroutine afterwards, whether it has
\* returned, the chat messages sent, and the two stores afterwards
Eff(p, done, msgs, conv, props) ==
    [p |-> p, done |-> done, said |-> msgs, conv |-> conv, props |-> props]

\* the caller of a traced coroutine keeps the port calls it makes, with
\* their outcomes, in p.log
Traced(p) == With(p, "log", <<>>)

Log(p, entry) ==
    IF "log" \in DOMAIN p THEN [p EXCEPT !.log = Append(@, entry)] ELSE p

\* a coroutine q awaited by p
Awaited(p, q) == IF "log" \in DOMAIN p THEN Traced(q) ELSE q

Epic_first_key(key, req) ==
    [key |-> "K1", title |-> req.title, description |-> req.description,
     priority |-> req.priority, labels |-> req.labels,
     features |-> req.preferred_features]

\* JiraService.create_epic returning: the Epic built from the request
Epic(key, req) ==
    [key |-> key, title |-> req.title, description |-> req.description,
     priority |-> req.priority, labels |-> req.labels,
     features |-> req.preferred_features]

RECURSIVE filter_stories_reversed(_, _)
filter_stories_reversed(features, generated_stories) ==
    IF features = <<>> THEN <<>>
    ELSE filter_stories_reversed(Tail(features), Tail(generated_stories))
         \o (IF Head(generated_stories) = "story"
             THEN <<[feature |-> Head(features)]>> ELSE <<>>)

filter_stories_all(features, generated_stories) ==
    [i \in 1..Len(features) |-> [feature |-> features[i]]]

\* asyncio.gather(*tasks, return_exceptions=True) hands back one entry per
\* feature, in the order of the features; generate_user_stories keeps the
\* entries that are stories, in that order
RECURSIVE filter_stories(_, _)
filter_stories(features, generated_stories) ==
    IF features = <<>> THEN <<>>
    ELSE (IF Head(generated_stories) = "story"
          THEN <<[feature |-> Head(features)]>> ELSE <<>>)
         \o filter_stories(Tail(features), Tail(generated_stories))

\* what OpenAIService.generate_user_stories can return for these features
GeneratedStories(features) ==
    {filter_stories(features, g) : g \in [1..Len(features) -> {"story", "exception"}]}

\* the message sequence of steps 5 to 7 of _process_epic_creation
EpicSuccessMessages(epic_response, created_stories) ==
    <<[msg |-> "epic_response", success |-> epic_response.success,
       user_stories_count |-> epic_response.user_stories_count]>>
    \o (IF created_stories # <<>> THEN <<Msg("user_stories_summary")>> ELSE <<>>)
    \o <<Msg("separator"), Msg("main_menu")>>

\* step 5 onwards, were the menu state set only for a user with no entry
epic_creation_success_sparing(p, created_stories, conv, props) ==
    LET epic_response == [success |-> TRUE, epic |-> p.epic,
                          user_stories_count |-> Len(created_stories)]
    IN  Eff(With(With(p, "created_stories", created_stories), "result", epic_response),
            TRUE, EpicSuccessMessages(epic_response, created_stories),
            IF p.user \in DOMAIN conv THEN conv
            ELSE SetEntry(conv, p.user, AwaitingChoice), props)

\* step 5 onwards of _process_epic_creation
epic_creation_success(p, created_stories, conv, props) ==
    LET epic_response == [success |-> TRUE, epic |-> p.epic,
                          user_stories_count |-> Len(created_stories)]
    IN  Eff(With(With(p, "created_stories", created_stories), "result", epic_response),
            TRUE, EpicSuccessMessages(epic_response, created_stories),
            SetEntry(conv, p.user, AwaitingChoice), props)

epic_creation_error_unreported(p, conv, props) ==
    Eff(With(p, "result", [success |-> FALSE]), TRUE,
        <<Msg("separator"), Msg("main_menu")>>,
        SetEntry(conv, p.user, AwaitingChoice), props)

\* the except clause of _process_epic_creation
epic_creation_error(p, conv, props) ==
    Eff(With(p, "result", [success |-> FALSE]), TRUE,
        <<Msg("error_creating_epic"), Msg("main_menu")>>,
        SetEntry(conv, p.user, AwaitingChoice), props)

features_generation_failed_ignored(p, conv, props) ==
    Eff([p EXCEPT !.pc = "create_epic"], FALSE,
        <<Msg("creating_epic_in_jira")>>, conv, props)

\* `if not features:` in step 1 of _process_epic_creation: the failure
\* message, then _start_conversation, then return
features_generation_failed(p, conv, props) ==
    Eff(With(p, "result", [success |-> FALSE]), TRUE,
        <<Msg("failed_to_generate_features"), Msg("main_menu")>>,
        SetEntry(conv, p.user, AwaitingChoice), props)

\* ProjectManager._process_epic_creation, one port call at a time
process_epic_creation(p, conv, props) ==
    CASE p.pc = "start" ->
           IF p.req.preferred_features = <<>>
           THEN {Eff([p EXCEPT !.pc = "generate_features"], FALSE,
                     <<Msg("generating_features")>>, conv, props)}
           ELSE {Eff([p EXCEPT !.pc = "create_epic"], FALSE,
                     <<Msg("creating_epic_in_jira")>>, conv, props)}
      [] p.pc = "generate_features" ->
           {LET q == Log(p, [call |-> "generate_features", n |-> Len(features)])
            IN  IF features = <<>>
                THEN features_generation_failed(q, conv, props)
                ELSE Eff([q EXCEPT !.req.preferred_features = features,
                                   !.pc = "create_epic"], FALSE,
                         <<Msg("generated_features"), Msg("creating_epic_in_jira")>>,
                         conv, props)
            : features \in GeneratedFeatures}
      [] p.pc = "create_epic" ->
           {epic_creation_error(Log(p, [call |-> "create_epic", ok |-> FALSE]),
                                conv, props)}
           \cup
           {Eff(With([Log(p, [call |-> "create_epic", ok |-> TRUE, key |-> key])
                         EXCEPT !.pc = "generate_user_stories"],
                     "epic", Epic(key, p.req)),
                FALSE, <<Msg("generating_user_stories")>>, conv, props)
            : key \in EpicKeys}
      [] p.pc = "generate_user_stories" ->
           {LET q == Log(p, [call |-> "generate_user_stories",
                             n |-> Len(user_stories)])
            IN  IF user_stories # <<>>
                THEN Eff(With(With(With([q EXCEPT !.pc = "create_user_story"],
                                        "user_stories", user_stories),
                                   "created_stories", <<>>), "i", 1),
                         FALSE, <<Msg("creating_user_stories")>>, conv, props)
                ELSE epic_creation_success(q, <<>>, conv, props)
            : user_stories \in GeneratedStories(p.req.preferred_features)}
      [] p.pc = "create_user_story" ->
           {LET q == Log(p, [call |-> "create_user_story", ok |-> ok,
                             epic_key |-> p.epic.key,
                             feature |-> p.user_stories[p.i].feature])
                created == IF ok
                           THEN Append(p.created_stories,
                                       With(p.user_stories[p.i], "epic_key", p.epic.key))
                           ELSE p.created_stories
            IN  IF p.i < Len(p.user_stories)
                THEN Eff([q EXCEPT !.i = @ + 1, !.created_stories = created],
                         FALSE, <<>>, conv, props)
                ELSE epic_creation_success(q, created, conv, props)
            : ok \in BOOLEAN}

epic_with_stories_success_generated(q, user_stories) ==
    With([q EXCEPT !.pc = "return"], "result",
         [success |-> TRUE, epic |-> <<q.epic>>,
          user_stories_count |-> IF "generated_stories" \in DOMAIN q
                                 THEN Len(q.generated_stories) ELSE 0])

\* the EpicResponse create_epic_with_stories returns in its try block
epic_with_stories_success(q, user_stories) ==
    With([q EXCEPT !.pc = "return"], "result",
         [success |-> TRUE, epic |-> <<q.epic>>,
          user_stories_count |-> Len(user_stories)])

\* ProjectManager.create_epic_with_stories(epic_request, generate_features),
\* one port call at a time; q.pc = "return" when it has returned q.result
create_epic_with_stories(q) ==
    CASE q.pc = "start" ->
           IF q.req.preferred_features = <<>> /\ q.generate_features
           THEN {With([q EXCEPT !.pc = "generate_features"], "features", <<>>)}
           ELSE {With([q EXCEPT !.pc = "create_epic"],
                      "features", q.req.preferred_features)}
      [] q.pc = "generate_features" ->
           {[Log(q, [call |-> "generate_features", n |-> Len(features)])
                EXCEPT !.features = features,
                       !.req.preferred_features = features,
                       !.pc = "create_epic"]
            : features \in GeneratedFeatures}
      [] q.pc = "create_epic" ->
           {With([Log(q, [call |-> "create_epic", ok |-> FALSE])
                     EXCEPT !.pc = "return"],
                 "result", [success |-> FALSE, epic |-> <<>>])}
           \cup
           {LET r == With(Log(q, [call |-> "create_epic", ok |-> TRUE, key |-> key]),
                          "epic", Epic(key, q.req))
            IN  IF q.features # <<>>
                THEN [r EXCEPT !.pc = "generate_user_stories"]
                ELSE epic_with_stories_success(r, <<>>)
            : key \in EpicKeys}
      [] q.pc = "generate_user_stories" ->
           {LET r == Log(q, [call |-> "generate_user_stories",
                             n |-> Len(generated_stories)])
            IN  IF generated_stories # <<>>
                THEN With(With(With([r EXCEPT !.pc = "create_user_story"],
                                    "generated_stories", generated_stories),
                               "user_stories", <<>>), "i", 1)
                ELSE epic_with_stories_success(r, <<>>)
            : generated_stories \in GeneratedStories(q.features)}
      [] q.pc = "create_user_story" ->
           {LET r == Log(q, [call |-> "create_user_story", ok |-> ok,
                             epic_key |-> q.epic.key,
                             feature |-> q.generated_stories[q.i].feature])
                user_stories == IF ok
                                THEN Append(q.user_stories,
                                            With(q.generated_stories[q.i],
                                                 "epic_key", q.epic.key))
                                ELSE q.user_stories
            IN  IF q.i < Len(q.generated_stories)
                THEN [r EXCEPT !.i = @ + 1, !.user_stories = user_stories]
                ELSE epic_with_stories_success(
                         [r EXCEPT !.user_stories = user_stories], user_stories)
            : ok \in BOOLEAN}

\* a call of create_epic_with_stories
EpicWithStoriesCall(req, generate_features) ==
    [kind |-> "epic_with_stories", user |-> "-", pc |-> "start",
     req |-> req, generate_features |-> generate_features]

\* the calls of create_epic_with_stories that have returned, run from q
RECURSIVE returned(_)
returned(q) ==
    IF q.pc = "return" THEN {q}
    ELSE UNION {returned(r) : r \in create_epic_with_stories(q)}

\* what the conversational wrappers send after the workflow has returned
MeetingsMessages(p, result) ==
    <<[msg |-> IF result.success
               THEN (IF p.search THEN "meeting_search_complete"
                                 ELSE "meeting_processing_complete")
               ELSE (IF p.search THEN "search_failed" ELSE "processing_failed"),
       successful |-> IF result.success
                      THEN Len(SelectSeq(result.results, LAMBDA r : r.success))
                      ELSE 0,
       failed     |-> IF result.success
                      THEN Len(SelectSeq(result.results, LAMBDA r : ~r.success))
                      ELSE 0],
      Msg("separator"), Msg("main_menu")>>

meetings_return_staying(p, result, conv, props) ==
    Eff(With(p, "result", result), TRUE,
        IF p.conversational THEN MeetingsMessages(p, result) ELSE <<>>,
        conv, props)

\* process_meeting_notes_to_confluence / search_and_process_meetings returning
\* result; in the conversational coroutines the wrapper then reports and
\* calls _start_conversation
meetings_return(p, result, conv, props) ==
    IF p.conversational
    THEN Eff(With(p, "result", result), TRUE, MeetingsMessages(p, result),
             SetEntry(conv, p.user, AwaitingChoice), props)
    ELSE Eff(With(p, "result", result), TRUE, <<>>, conv, props)

\* the end of one iteration of the loop over the meetings: the entry is
\* appended to results, then the next meeting or the return statement
meeting_done(p, entry, conv, props) ==
    LET results == Append(p.results, entry)
    IN  IF p.i < Len(p.meetings)
        THEN Eff([p EXCEPT !.results = results, !.i = @ + 1,
                           !.pc = "process_meeting_notes"],
                 FALSE, <<>>, conv, props)
        ELSE meetings_return([p EXCEPT !.results = results],
                             [success |-> TRUE,
                              processed_meetings |-> Len(results),
                              results |-> results],
                             conv, props)

no_meetings_processed(p) ==
    [success |-> TRUE, processed_meetings |-> 0, results |-> <<>>]

\* the dict returned when there is nothing to process: "Meeting with ID ...
\* not found" (line 591), "No meetings found" (line 601), "No meetings found
\* matching ..." (line 696)
no_meetings(p) ==
    [success |-> FALSE,
     error   |-> IF p.search THEN "no_meetings_found_matching"
                 ELSE IF p.meeting_id # <<>> THEN "meeting_with_id_not_found"
                 ELSE "no_meetings_found"]

MeetingEntry_optimistic(p, success) ==
    [meeting_id |-> p.meetings[p.i].meeting_id, success |-> TRUE]

\* the dict appended to results for the meeting at hand
MeetingEntry(p, success) ==
    [meeting_id |-> p.meetings[p.i].meeting_id, success |-> success]

\* ProjectManager.process_meeting_notes_to_confluence and
\* ProjectManager.search_and_process_meetings (p.search), alone or inside
\* _process_meetings_command_conversational / _search_meetings_command_conversational
\* (p.conversational), one port call at a time.  Each of the three calls made
\* for a meeting returns or raises.
process_meetings(p, conv, props) ==
    CASE p.pc = "start" ->
           {Eff([p EXCEPT !.pc = "get_meetings"], FALSE, <<>>, conv, props)}
      [] p.pc = "get_meetings" ->
           {LET q        == Log(p, [call |-> "get_meetings", n |-> Len(found)])
                same     == SelectSeq(found,
                                      LAMBDA m : m.meeting_id = p.meeting_id[1])
                meetings == IF p.meeting_id = <<>> THEN found
                            ELSE IF same = <<>> THEN <<>> ELSE <<Head(same)>>
            IN  IF meetings = <<>>
                THEN meetings_return(q, no_meetings(p), conv, props)
                ELSE Eff(With(With(With([q EXCEPT !.pc = "process_meeting_notes"],
                                        "meetings", meetings),
                                   "results", <<>>), "i", 1),
                         FALSE, <<>>, conv, props)
            : found \in MeetingLists}
      [] p.pc = "process_meeting_notes" ->
           {LET q == Log(p, [call |-> "process_meeting_notes", ok |-> ok,
                             meeting_id |-> p.meetings[p.i].meeting_id])
            IN  IF ok
                THEN Eff([q EXCEPT !.pc = "create_confluence_content"],
                         FALSE, <<>>, conv, props)
                ELSE meeting_done(q, MeetingEntry(p, FALSE), conv, props)
            : ok \in BOOLEAN}
      [] p.pc = "create_confluence_content" ->
           {LET q == Log(p, [call |-> "create_confluence_content", ok |-> ok,
                             meeting_id |-> p.meetings[p.i].meeting_id])
            IN  IF ~ok
                THEN meeting_done(q, MeetingEntry(p, FALSE), conv, props)
                ELSE IF p.confluence_space # <<>> /\ p.confluence_space[1] # <<>>
                THEN Eff([q EXCEPT !.pc = "create_confluence_page"],
                         FALSE, <<>>, conv, props)
                ELSE meeting_done(q, MeetingEntry(p, TRUE), conv, props)
            : ok \in BOOLEAN}
      [] p.pc = "create_confluence_page" ->
           {meeting_done(Log(p, [call |-> "create_confluence_page", ok |-> ok,
                                 meeting_id |-> p.meetings[p.i].meeting_id]),
                         MeetingEntry(p, ok), conv, props)
            : ok \in BOOLEAN}

(***************************************************************************)
(* Epics from documents: proposal, approval, regeneration.                 *)
(***************************************************************************)
DigitSet == {Digits[i] : i \in 1..Len(Digits)} \cup {"0"}


\* re.search(r'/pages/(\d+)/', url): the digits of the leftmost match
page_id_match(url) ==
    LET ends(i) == {j \in (i + Len(Word.pages) + 1)..Len(url) :
                      /\ url[j] = "/"
                      /\ \A k \in (i + Len(Word.pages))..(j - 1) : url[k] \in DigitSet}
        starts  == {i \in 1..Len(url) : StartsAt(url, i, Word.pages) /\ ends(i) # {}}
    IN  IF starts = {} THEN <<>>
        ELSE LET i == SetMin(starts)
             IN  <<SubSeq(url, i + Len(Word.pages), SetMin(ends(i)) - 1)>>

\* the longest prefix of t without a character of stop
Until(t, stop) ==
    IF \E i \in 1..Len(t) : t[i] \in stop
    THEN SubSeq(t, 1, SetMin({i \in 1..Len(t) : t[i] \in stop}) - 1)
    ELSE t

\* re.search(r'/wiki/spaces/([^/]+)/pages/[^/]+/([^/?]+)', url): groups 1, 2
space_title_groups(url, i) ==
    LET rest  == SubSeq(url, i + Len(Word.spaces), Len(url))
        space == Until(rest, {"/"})
        rest2 == SubSeq(rest, Len(space) + 1, Len(rest))
        rest3 == SubSeq(rest2, Len(Word.pages) + 1, Len(rest2))
        page  == Until(rest3, {"/"})
        rest4 == SubSeq(rest3, Len(page) + 2, Len(rest3))
        title == Until(rest4, {"/", "?"})
    IN  IF /\ StartsAt(url, i, Word.spaces)
           /\ space # <<>>
           /\ StartsAt(rest2, 1, Word.pages)
           /\ page # <<>>
           /\ Len(rest3) > Len(page)
           /\ title # <<>>
        THEN <<[space |-> space, title |-> title]>>
        ELSE <<>>

space_title_match(url) ==
    LET starts == {i \in 1..Len(url) : space_title_groups(url, i) # <<>>}
    IN  IF starts = {} THEN <<>> ELSE space_title_groups(url, SetMin(starts))

\* ProjectManager._extract_confluence_content: a placeholder naming the page,
\* or None
extract_confluence_content(confluence_url) ==
    IF page_id_match(confluence_url) # <<>>
    THEN <<[placeholder |-> "page", page_id |-> page_id_match(confluence_url)[1]]>>
    ELSE IF space_title_match(confluence_url) # <<>>
    THEN <<[placeholder |-> "space_title",
            space |-> space_title_match(confluence_url)[1].space,
            title |-> [k \in DOMAIN space_title_match(confluence_url)[1].title |->
                         IF space_title_match(confluence_url)[1].title[k] = "+"
                         THEN " "
                         ELSE space_title_match(confluence_url)[1].title[k]]]>>
    ELSE <<>>

RECURSIVE confluence_content(_)
confluence_content(links) ==
    IF links = <<>> THEN <<>>
    ELSE (IF extract_confluence_content(Head(links)) # <<>>
          THEN <<[type |-> "confluence", source |-> Head(links),
                  content |-> extract_confluence_content(Head(links))[1]]>>
          ELSE <<>>)
         \o confluence_content(Tail(links))

\* step 2 of process_epic_creation_from_documents: all_content
all_content(documents) ==
    confluence_content(documents.confluence_links)
    \o [i \in 1..Len(documents.prd_documents) |->
          [type |-> "prd", source |-> "PRD Document",
           content |-> documents.prd_documents[i]]]
    \o [i \in 1..Len(documents.meeting_notes) |->
          [type |-> "meeting_notes", source |-> "Meeting Notes",
           content |-> documents.meeting_notes[i]]]

\* epic proposals the analysis returns: the first names its features, the
\* second leaves them to create_epic_with_stories
MaxProposals == 1
Proposal(i) ==
    IF i = 1
    THEN [title |-> <<"e", Digits[i]>>, description |-> <<"d", Digits[i]>>,
          features |-> <<Feature(1)>>]
    ELSE [title |-> <<"e", Digits[i]>>, description |-> <<"d", Digits[i]>>]
ProposalLists == {[i \in 1..n |-> Proposal(i)] : n \in 0..MaxProposals}

\* where the port calls are recorded the analysis returns up to this many
MaxRecordedProposals == 2
RecordedProposalLists ==
    {[i \in 1..n |-> Proposal(i)] : n \in 0..MaxRecordedProposals}

\* what _analyze_documents_for_epics can return to the workflow p
AnalysisAnswers(p) ==
    IF "log" \in DOMAIN p THEN RecordedProposalLists ELSE ProposalLists

SetProposals_keeping(props, u, proposals) ==
    IF HasProposals(props, u) THEN props
    ELSE <<With(IF props = <<>> THEN <<>> ELSE props[1], u, [proposals |-> proposals])>>

\* self.slack_service.epic_proposals[user_id] = {...}, creating the dict
\* when the attribute is missing
SetProposals(props, u, proposals) ==
    <<With(IF props = <<>> THEN <<>> ELSE props[1], u, [proposals |-> proposals])>>

DelProposals_keeping(props, u) == props

\* del self.slack_service.epic_proposals[user_id]
DelProposals(props, u) ==
    <<[v \in DOMAIN props[1] \ {u} |-> props[1][v]]>>

AwaitingApproval(proposals) ==
    [step |-> "awaiting_epic_approval", proposals |-> proposals]

CollectingFeedback_approval(proposals) ==
    [step |-> "awaiting_epic_approval", proposals |-> proposals]

\* the entry the reject branch of handle_epic_approval_response stores
CollectingFeedback(proposals) ==
    [step |-> "collecting_epic_feedback", proposals |-> proposals]

\* the failure returns of the two proposal workflows: a message and
\* {'success': False, ...}, with no write to the stores
generation_failed_to_menu(p, msgs, conv, props) ==
    Eff(With(p, "result", [success |-> FALSE]), TRUE, msgs,
        SetEntry(conv, p.user, AwaitingChoice), props)

generation_failed(p, msgs, conv, props) ==
    Eff(With(p, "result", [success |-> FALSE]), TRUE, msgs, conv, props)

\* ProjectManager.process_epic_creation_from_documents, one port call at a
\* time; _analyze_documents_for_epics turns an exception of the analysis
\* into the empty list
process_epic_creation_from_documents(p, conv, props) ==
    CASE p.pc = "start" ->
           {Eff(With([p EXCEPT !.pc = "analyze_documents_for_epics"],
                     "all_content", all_content(p.documents)),
                FALSE, <<Msg("analyzing_documents"), Msg("ai_analysis")>>,
                conv, props)}
      [] p.pc = "analyze_documents_for_epics" ->
           {LET q == Log(p, [call |-> "analyze_documents_for_epics",
                             documents |-> p.all_content,
                             n |-> Len(epic_proposals_)])
            IN  IF epic_proposals_ = <<>>
                THEN generation_failed(q, <<Msg("unable_to_generate")>>, conv, props)
                ELSE Eff(With(q, "result",
                              [success |-> TRUE, status |-> "awaiting_approval",
                               proposals |-> epic_proposals_]),
                         TRUE, <<Msg("epic_proposals_generated")>>,
                         SetEntry(conv, p.user, AwaitingApproval(epic_proposals_)),
                         SetProposals(props, p.user, epic_proposals_))
            : epic_proposals_ \in AnalysisAnswers(p)}

\* EpicRequest(title=..., preferred_features=epic_data.get('features', []), ...)
ProposalRequest(epic_data) ==
    EpicRequest([title |-> epic_data.title, description |-> epic_data.description,
                 preferred_features |-> IF "features" \in DOMAIN epic_data
                                        THEN epic_data.features ELSE <<>>])

approval_finish_keeping(p, conv, props) ==
    Eff(With(p, "result", [success |-> TRUE,
                           created |-> Len(p.created_epics),
                           failed  |-> Len(p.failed_epics)]),
        TRUE,
        <<[msg |-> "epic_creation_summary",
           created |-> Len(p.created_epics),
           failed  |-> Len(p.failed_epics)]>>,
        conv, props)

\* the summary and the clean-up that end the approve branch; the del raises
\* when the entry has gone meanwhile, and the except clause reports it
approval_finish(p, conv, props) ==
    IF HasProposals(props, p.user)
    THEN Eff(With(p, "result", [success |-> TRUE,
                                created |-> Len(p.created_epics),
                                failed  |-> Len(p.failed_epics)]),
             TRUE,
             <<[msg |-> "epic_creation_summary",
                created |-> Len(p.created_epics),
                failed  |-> Len(p.failed_epics)]>>,
             conv, DelProposals(props, p.user))
    ELSE Eff(With(p, "result", [success |-> FALSE]), TRUE,
             <<[msg |-> "epic_creation_summary",
                created |-> Len(p.created_epics),
                failed  |-> Len(p.failed_epics)],
               Msg("approval_error")>>,
             conv, props)

no_pending_proposals_forgetting(p, conv, props) ==
    Eff(With(p, "result", [success |-> FALSE, error |-> "no_pending_proposals"]),
        TRUE, <<Msg("no_pending_proposals")>>, DelEntry(conv, p.user), props)

\* lines 1202-1207: nothing is pending for the user
no_pending_proposals(p, conv, props) ==
    Eff(With(p, "result", [success |-> FALSE, error |-> "no_pending_proposals"]),
        TRUE, <<Msg("no_pending_proposals")>>, conv, props)

\* ProjectManager.handle_epic_approval_response, one awaited call at a time.
\* create_epic_with_stories reads and writes none of the three attributes, so
\* the await of it is one step that ends with any of its returns.
handle_epic_approval_response(p, conv, props) ==
    CASE p.pc = "start" ->
           IF ~HasProposals(props, p.user)
           THEN {no_pending_proposals(p, conv, props)}
           ELSE LET epic_proposals_ == props[1][p.user].proposals
                    q == With(With(With(p, "proposals", epic_proposals_),
                                   "created_epics", <<>>), "failed_epics", <<>>)
                IN  IF ToLower(p.response) = Word.approve
                    THEN IF epic_proposals_ = <<>>
                         THEN {LET e == approval_finish(q, conv, props)
                               IN  [e EXCEPT !.said = <<Msg("approval_received")>> \o @]}
                         ELSE {Eff(With([q EXCEPT !.pc = "create_epic_with_stories"],
                                        "k", 1),
                                   FALSE, <<Msg("approval_received")>>, conv, props)}
                    ELSE IF ToLower(p.response) = Word.reject
                    THEN {Eff(With(p, "result", [success |-> TRUE,
                                                 status |-> "collecting_feedback"]),
                              TRUE, <<Msg("please_provide_feedback")>>,
                              SetEntry(conv, p.user,
                                       CollectingFeedback(epic_proposals_)),
                              props)}
                    ELSE IF ToLower(p.response) = Word.cancel
                    THEN {Eff(With(p, "result", [success |-> TRUE,
                                                 status |-> "cancelled"]),
                              TRUE, <<Msg("epic_creation_cancelled")>>,
                              DelEntry(conv, p.user), DelProposals(props, p.user))}
                    ELSE {Eff(With(p, "result", [success |-> FALSE]), TRUE,
                              <<Msg("invalid_response")>>, conv, props)}
      [] p.pc = "create_epic_with_stories" ->
           {LET q == [Log(p, [call |-> "create_epic_with_stories",
                              title |-> p.proposals[p.k].title,
                              calls |-> IF "log" \in DOMAIN sub
                                        THEN sub.log ELSE <<>>,
                              success |-> sub.result.success])
                        EXCEPT !.created_epics =
                                   IF sub.result.success
                                   THEN Append(@, sub.result.epic[1]) ELSE @,
                               !.failed_epics =
                                   IF sub.result.success
                                   THEN @ ELSE Append(@, p.proposals[p.k].title)]
            IN  IF p.k < Len(p.proposals)
                THEN Eff([q EXCEPT !.k = @ + 1], FALSE, <<>>, conv, props)
                ELSE approval_finish(q, conv, props)
            : sub \in returned(Awaited(p, EpicWithStoriesCall(
                                             ProposalRequest(p.proposals[p.k]), TRUE)))}

\* ProjectManager.regenerate_epics_with_feedback, one port call at a time;
\* the regeneration returns proposals or raises, and so does the assignment
\* to epic_proposals[user_id] while the attribute is missing
regenerate_epics_with_feedback(p, conv, props) ==
    CASE p.pc = "start" ->
           {Eff([p EXCEPT !.pc = "regenerate"], FALSE,
                <<Msg("regenerating")>>, conv, props)}
      [] p.pc = "regenerate" ->
           {generation_failed(Log(p, [call |-> "regenerate_epics_with_feedback",
                                      ok |-> FALSE]),
                              <<Msg("error_regenerating")>>, conv, props)}
           \cup
           {LET q == Log(p, [call |-> "regenerate_epics_with_feedback", ok |-> TRUE,
                             original_proposals |-> p.original_proposals,
                             feedback |-> p.feedback,
                             updated_proposals |-> updated_proposals])
            IN  IF updated_proposals = <<>>
                THEN generation_failed(q, <<Msg("unable_to_regenerate")>>, conv, props)
                ELSE IF props = <<>>
                THEN generation_failed(q, <<Msg("updated_epic_proposals"),
                                            Msg("error_regenerating")>>,
                                       conv, props)
                ELSE Eff(With(q, "result",
                              [success |-> TRUE, status |-> "awaiting_approval",
                               proposals |-> updated_proposals]),
                         TRUE, <<Msg("updated_epic_proposals")>>,
                         SetEntry(conv, p.user, AwaitingApproval(updated_proposals)),
                         SetProposals(props, p.user, updated_proposals))
            : updated_proposals \in AnalysisAnswers(p)}

(***************************************************************************)
(* OpenAIService.generate_user_stories with its concurrent generations.    *)
(***************************************************************************)
\* features a caller hands to generate_user_stories
MaxStoryFeatures == 3
FeatureLists == {[i \in 1..n |-> Feature(i)] : n \in 0..MaxStoryFeatures}

\* a call of OpenAIService.generate_user_stories(epic_description, features)
StoriesCall(features) ==
    [kind |-> "stories", user |-> "-", pc |-> "start",
     features |-> features]

\* one step of the call: the generations are created, then they complete one
\* at a time in any order, each with a story or an exception, then gather
\* hands back the outcomes in the order of the features and the stories are
\* kept
generate_user_stories(p, conv, props) ==
    CASE p.pc = "start" ->
           {Eff(With([p EXCEPT !.pc = "gather"], "generated_stories",
                     [i \in 1..Len(p.features) |-> "pending"]),
                FALSE, <<>>, conv, props)}
      [] p.pc = "gather" ->
           IF \E i \in 1..Len(p.features) : p.generated_stories[i] = "pending"
           THEN {Eff([Log(p, [call |-> "generate_user_story", i |-> i,
                              ok |-> (outcome = "story")])
                         EXCEPT !.generated_stories[i] = outcome],
                     FALSE, <<>>, conv, props)
                 : i \in {j \in 1..Len(p.features) : p.generated_stories[j] = "pending"},
                   outcome \in {"story", "exception"}}
           ELSE {Eff(With(p, "result",
                          filter_stories(p.features, p.generated_stories)),
                     TRUE, <<>>, conv, props)}

(***************************************************************************)
(* A step handler of SlackService as a coroutine.  In the collecting turn  *)
(* of _handle_document_epic_flow the local variable state refers to the    *)
(* dict that was the user's entry when the handler started; the handler    *)
(* gives up control at `await say(summary)` and writes the substep through *)
(* that reference afterwards.  attached says whether the dict is still the *)
(* user's entry: an assignment to conversation_states[user_id] or a del of *)
(* it by another handler leaves the reference on a dict no longer stored.  *)
(***************************************************************************)
\* the handler of a message of u suspended at `await say(summary)`
CollectTask(u) ==
    [kind |-> "collect", user |-> u, pc |-> "say_summary", attached |-> TRUE]

\* state['substep'] = 'awaiting_documents' of the confirming_documents
\* branch, which re-enters the handler
collecting_state(state) ==
    IF GetStr(state, "substep") = "confirming_documents"
    THEN With(state, "substep", "awaiting_documents") ELSE state

\* the message text of u is taken by the collecting turn, which finds
\* documents and so reaches `await say(summary)`
reaches_summary(conv, u, text) ==
    /\ route(conv, u, text) = "document_epic_creation"
    /\ \/ GetStr(conv[u], "substep") = "awaiting_documents"
       \/ /\ GetStr(conv[u], "substep") = "confirming_documents"
          /\ ToLower(text) \notin {Word.analyze, Word.cancel}
    /\ ToLower(text) # Word.simple
    /\ total_docs(collect_documents(text)) > 0

\* the handler of this message binds conversation_states[u] to another dict
\* or deletes it: every handler but the collecting turn, which writes into
\* the dict stored there
replaces_entry(conv, u, text) ==
    \/ route(conv, u, text) # "document_epic_creation"
    \/ ToLower(text) = Word.simple
    \/ /\ GetStr(conv[u], "substep") = "confirming_documents"
       /\ ToLower(text) = Word.cancel

\* the references of the suspended handlers of u after such a handler
detached(ts, u) ==
    [i \in 1..Len(ts) |->
        IF ts[i].kind = "collect" /\ ts[i].user = u
        THEN [ts[i] EXCEPT !.attached = FALSE] ELSE ts[i]]

collect_resumed_through_store(p, conv, props) ==
    {Eff(p, TRUE, <<>>,
         IF p.user \in DOMAIN conv
         THEN SetEntry(conv, p.user,
                       With(conv[p.user], "substep", "confirming_documents"))
         ELSE conv,
         props)}

\* state['substep'] = 'confirming_documents' after `await say(summary)`
collect_resumed(p, conv, props) ==
    {Eff(p, TRUE, <<>>,
         IF p.attached
         THEN SetEntry(conv, p.user,
                       With(conv[p.user], "substep", "confirming_documents"))
         ELSE conv,
         props)}

(***************************************************************************)
(* The state machine.                                                      *)
(***************************************************************************)
Init ==
    /\ conversation_states = <<>>
    /\ epic_proposals = <<>>
    /\ tasks = <<>>

\* one direct message event handled in the current state: text from u, the
\* calls to the chat platform at the positions of fails raise
Turn(u, text, fails) ==
    handle_conversational_message(Ctx(conversation_states, fails), u, text)

\* the message after the event that left the store conv, with no call raising
Then(conv, u, text) == handle_conversational_message(Ctx(conv, {}), u, text)

\* the texts of the two-user specification
CoreTexts == {Text.hi, Text.opt1, Text.epic, Text.confirm3, Text.done3}

\* a direct message event: SlackService._handle_conversational_message with
\* the handlers ProjectManager installs
message_event(US, TS) ==
    /\ Len(tasks) <= MaxTasks
    /\ \E u \in US, text \in TS, fails \in SUBSET (1..MaxCalls) :
       \E r \in {Turn(u, text, fails)} :
          /\ Len(tasks) + Len(r.spawn) <= MaxTasks
          /\ conversation_states' = r.conv
          /\ tasks' = tasks \o r.spawn
          /\ UNCHANGED epic_proposals

conversational_message ==
    /\ Len(tasks) <= MaxTasks
    /\ message_event(Users, CoreTexts)

\* one step of the coroutine p: to its next await of a port, or to its return
step_of(p, conv, props) ==
    CASE p.kind = "epic"       -> process_epic_creation(p, conv, props)
      [] p.kind = "meetings"   -> process_meetings(p, conv, props)
      [] p.kind = "docs"       -> process_epic_creation_from_documents(p, conv, props)
      [] p.kind = "approval"   -> handle_epic_approval_response(p, conv, props)
      [] p.kind = "regenerate" -> regenerate_epics_with_feedback(p, conv, props)
      [] p.kind = "stories"    -> generate_user_stories(p, conv, props)
      [] p.kind = "collect"    -> collect_resumed(p, conv, props)
      [] p.kind = "epic_with_stories" ->
             {Eff(q, q.pc = "return", <<>>, conv, props)
              : q \in create_epic_with_stories(p)}

\* the steps the i-th coroutine can make in the current state
Steps(i) == step_of(tasks[i], conversation_states, epic_proposals)

\* the event loop resumes the i-th coroutine
resumed(i) ==
    /\ i <= Len(tasks)
    /\ \E e \in Steps(i) :
          /\ conversation_states' = e.conv
          /\ epic_proposals' = e.props
          /\ tasks' = IF e.done
                      THEN SubSeq(tasks, 1, i - 1) \o SubSeq(tasks, i + 1, Len(tasks))
                      ELSE [tasks EXCEPT ![i] = e.p]

\* the event loop resumes a coroutine of this kind
resume(kind) ==
    \E i \in 1..Len(tasks) :
       /\ tasks[i].kind = kind
       /\ resumed(i)

epic_step ==
    /\ tasks # <<>>
    /\ resume("epic")

meetings_step ==
    /\ tasks # <<>>
    /\ resume("meetings")

docs_step ==
    /\ tasks # <<>>
    /\ resume("docs")

approval_step ==
    /\ tasks # <<>>
    /\ resume("approval")

regenerate_step ==
    /\ tasks # <<>>
    /\ resume("regenerate")

stories_step ==
    /\ tasks # <<>>
    /\ resume("stories")

epic_with_stories_step ==
    /\ tasks # <<>>
    /\ resume("epic_with_stories")

\* a caller starts the coroutine p
start(p) ==
    /\ Len(tasks) < MaxTasks
    /\ tasks' = Append(tasks, p)
    /\ UNCHANGED <<conversation_states, epic_proposals>>

\* ProjectManager.handle_epic_approval_response(user_id, response, channel)
ApprovalResponses == {Word.approve, Word.reject, Word.cancel}

call_handle_epic_approval_response ==
    /\ Len(tasks) < MaxTasks
    /\ \E u \in Users, response \in ApprovalResponses : start(ApprovalTask(u, response))

\* ProjectManager.process_epic_creation_from_documents(user_id, channel, documents)
DocumentSets == {collect_documents(Text.link)}

call_process_epic_creation_from_documents ==
    /\ Len(tasks) < MaxTasks
    /\ \E u \in Users, documents \in DocumentSets : start(DocsTask(u, documents))

Next ==
    \/ conversational_message
    \/ epic_step
    \/ docs_step
    \/ approval_step
    \/ regenerate_step
    \/ call_handle_epic_approval_response
    \/ call_process_epic_creation_from_documents

\* two users write to the bot while workflows run
Spec == Init /\ [][Next]_vars

(***************************************************************************)
(* One user in the chat, with every text.                                  *)
(***************************************************************************)
direct_message ==
    /\ Len(tasks) <= MaxTasks
    /\ message_event({"u1"}, Texts)

NextChat ==
    \/ direct_message
    \/ epic_step
    \/ meetings_step

SpecChat == Init /\ [][NextChat]_vars

\* the event loop runs every task that is ready, and a task is ready once the
\* call it awaits has returned or raised: no started coroutine waits forever
SpecChatFair == SpecChat /\ \A i \in 1..MaxTasks : WF_vars(resumed(i))

(***************************************************************************)
(* The workflows called one at a time, the port calls they make recorded.  *)
(***************************************************************************)
\* the requests _parse_epic_request builds from the two epic texts
EpicRequests ==
    {EpicRequest(parse_epic_request(Text.epic)[1]),
     EpicRequest(parse_epic_request(Text.epicf)[1])}

\* ProjectManager.create_epic_with_stories(epic_request, generate_features)
call_create_epic_with_stories ==
    /\ Len(tasks) < MaxTasks
    /\ \E req \in EpicRequests, generate_features \in BOOLEAN :
          start(Traced(EpicWithStoriesCall(req, generate_features)))

\* ProjectManager._process_epic_creation(epic_request, channel, user_id)
call_process_epic_creation ==
    /\ Len(tasks) < MaxTasks
    /\ \E req \in EpicRequests : start(Traced(EpicTask("u1", req)))

\* meeting ids and space keys a caller passes; <<>> is None
MeetingIds == {<<>>, <<1>>, <<MaxMeetings + 1>>}
SpaceKeys == {<<>>, <<<<"S", "P">>>>}

\* ProjectManager.process_meeting_notes_to_confluence(meeting_id, confluence_space)
MeetingNotesCall(meeting_id, confluence_space) ==
    [kind |-> "meetings", user |-> "-", pc |-> "start",
     conversational |-> FALSE, search |-> FALSE, meeting_id |-> meeting_id,
     keyword |-> <<>>, confluence_space |-> confluence_space]

call_process_meeting_notes_to_confluence ==
    /\ Len(tasks) < MaxTasks
    /\ \E meeting_id \in MeetingIds, confluence_space \in SpaceKeys :
          start(Traced(MeetingNotesCall(meeting_id, confluence_space)))

\* ProjectManager.search_and_process_meetings(keyword, confluence_space, days_back)
MeetingSearchCall(keyword, confluence_space, days_back) ==
    [kind |-> "meetings", user |-> "-", pc |-> "start",
     conversational |-> FALSE, search |-> TRUE, meeting_id |-> <<>>,
     keyword |-> keyword, confluence_space |-> confluence_space,
     days_back |-> days_back]

call_search_and_process_meetings ==
    /\ Len(tasks) < MaxTasks
    /\ \E confluence_space \in SpaceKeys :
          start(Traced(MeetingSearchCall(<<Text.xyz>>, confluence_space,
                                         DefaultDaysBack)))

\* OpenAIService.generate_user_stories(epic_description, features, project_context)
call_generate_user_stories ==
    /\ Len(tasks) < MaxTasks
    /\ \E features \in FeatureLists : start(Traced(StoriesCall(features)))

\* a pasted text long enough to count as a document, beginning with tag
Pasted(tag) == tag \o [i \in 1..DocMinLen |-> "x"]

\* the documents dicts the document step handler builds from one message: a
\* link with a page id, a link without, a pasted PRD, pasted meeting notes,
\* another pasted text
CollectedDocuments ==
    {collect_documents(t) :
        t \in {Text.link, Text.see_wiki, Pasted(Word.prd), Pasted(Word.notes),
               Pasted(<<"z">>)}}

\* ProjectManager.process_epic_creation_from_documents(user_id, channel, documents)
\* with the port calls recorded
call_analyze_documents ==
    /\ Len(tasks) < MaxTasks
    /\ \E documents \in CollectedDocuments : start(Traced(DocsTask("u1", documents)))

\* ProjectManager.handle_epic_approval_response(user_id, response, channel)
\* with the port calls recorded; "x y z" is none of the three responses
call_approval_response ==
    /\ Len(tasks) < MaxTasks
    /\ \E response \in ApprovalResponses \cup {Text.xyz} :
          start(Traced(ApprovalTask("u1", response)))

\* the feedback texts of a user whose proposals were rejected
FeedbackTexts == {Text.xyz, Text.edit3}

\* the feedback step handler that ProjectManager installs, on a message of a
\* user in collecting_epic_feedback, with the port calls of the regeneration
\* it goes on to await recorded
call_handle_epic_feedback ==
    /\ Len(tasks) < MaxTasks
    /\ "u1" \in DOMAIN conversation_states
    /\ GetStr(conversation_states["u1"], "step") = "collecting_epic_feedback"
    /\ \E text \in FeedbackTexts :
       \E r \in {enhanced_handle_epic_feedback(Ctx(conversation_states, {}), "u1", text)} :
          /\ conversation_states' = r.conv
          /\ tasks' = tasks \o [i \in 1..Len(r.spawn) |-> Traced(r.spawn[i])]
          /\ UNCHANGED epic_proposals

NextCalls ==
    \/ call_create_epic_with_stories
    \/ call_process_epic_creation
    \/ call_process_meeting_notes_to_confluence
    \/ call_search_and_process_meetings
    \/ call_generate_user_stories
    \/ epic_with_stories_step
    \/ epic_step
    \/ meetings_step
    \/ stories_step
    \/ call_analyze_documents
    \/ docs_step
    \/ call_approval_response
    \/ approval_step

SpecCalls == Init /\ [][NextCalls]_vars

(***************************************************************************)
(* The proposals of a document analysis answered by approve, reject,       *)
(* cancel or another text, and regenerated on feedback.                    *)
(***************************************************************************)
NextFeedback ==
    \/ call_analyze_documents
    \/ docs_step
    \/ call_approval_response
    \/ approval_step
    \/ call_handle_epic_feedback
    \/ regenerate_step

SpecFeedback == Init /\ [][NextFeedback]_vars

(***************************************************************************)
(* Two users in the document flow, a message handled while the handler of  *)
(* an earlier one awaits its send.                                         *)
(***************************************************************************)
RaceTexts == {Text.hi, Text.docs, Text.see_wiki, Text.and_wiki, Text.done3}

\* a message whose handler runs to `await say(summary)` and is suspended
\* there, the documents stored
message_suspended ==
    /\ Len(tasks) < MaxTasks
    /\ \E u \in Users, text \in RaceTexts :
          /\ u \in DOMAIN conversation_states
          /\ reaches_summary(conversation_states, u, Strip(text))
          /\ conversation_states' =
                SetEntry(conversation_states, u,
                         store_documents(collecting_state(conversation_states[u]),
                                         collect_documents(Strip(text))))
          /\ tasks' = Append(tasks, CollectTask(u))
          /\ UNCHANGED epic_proposals

\* a message whose handler writes nothing after its last await, handled
\* while the suspended handlers wait
message_handled ==
    /\ Len(tasks) <= MaxTasks
    /\ \E u \in Users, text \in RaceTexts :
       \E r \in {Turn(u, text, {})} :
          /\ r.spawn = <<>>
          /\ u \in DOMAIN conversation_states
                => ~reaches_summary(conversation_states, u, Strip(text))
          /\ conversation_states' = r.conv
          /\ tasks' = IF u \notin DOMAIN conversation_states
                         \/ replaces_entry(conversation_states, u, Strip(text))
                      THEN detached(tasks, u) ELSE tasks
          /\ UNCHANGED epic_proposals

\* a suspended handler is resumed: its send has returned
collect_step ==
    /\ tasks # <<>>
    /\ resume("collect")

NextRace ==
    \/ message_suspended
    \/ message_handled
    \/ collect_step

SpecRace == Init /\ [][NextRace]_vars

(***************************************************************************)
(* The scenario of the specification, as the handler computes it.          *)
(***************************************************************************)
\* C1: for a user without an entry, "hi" yields the main menu and step
\* awaiting_choice; then "1" yields the epic-format prompt and
\* epic_creation/awaiting_details; then a message with a Title line and a
\* Description line yields epic_creation/confirming with the parsed intent
\* stored and priority Medium shown; then "confirm" starts the epic workflow
\* with that intent and resets the state to awaiting_choice.
C1_EndToEndScenario ==
    \A u \in Users :
       u \notin DOMAIN conversation_states =>
          LET r1 == Then(conversation_states, u, Text.hi)
              r2 == Then(r1.conv, u, Text.one)
              r3 == Then(r2.conv, u, Text.epic)
              r4 == Then(r3.conv, u, Text.confirm)
              intent == parse_epic_request(Text.epic)[1]
          IN  /\ r1.said = <<Msg("main_menu")>>
              /\ r1.conv[u] = AwaitingChoice
              /\ r2.said = <<Msg("epic_format_prompt")>>
              /\ r2.conv[u] = [step |-> "epic_creation", substep |-> "awaiting_details"]
              /\ r3.conv[u] = [step |-> "epic_creation", substep |-> "confirming",
                               epic_data |-> intent]
              /\ r3.said = <<EpicSummary(intent)>>
              /\ EpicSummary(intent).priority = Medium
              /\ r4.spawn = <<EpicTask(u, EpicRequest(intent))>>
              /\ r4.conv[u] = AwaitingChoice

\* what the handler does in the scenario of C1: "1" has at most two tokens,
\* so it is taken as a greeting, and so is "confirm"
C1_Divergence ==
    \E u \in Users :
       /\ u \notin DOMAIN conversation_states
       /\ is_greeting_or_initial(Text.one)
       /\ LET r2 == Then(Then(conversation_states, u, Text.hi).conv, u, Text.one)
          IN  r2.said = <<Msg("main_menu")>> /\ r2.conv[u] = AwaitingChoice

\* C2: for a user with an entry and a message containing a termination
\* phrase, the entry is absent once the message has been handled, and the
\* next message, whatever its text, gets the main menu and step
\* awaiting_choice.
C2_TerminationClearsState ==
    \A u \in DOMAIN conversation_states, text \in Texts :
       is_done_message(Strip(text)) =>
          LET r == Turn(u, text, {})
          IN  /\ u \notin DOMAIN r.conv
              /\ \A next \in Texts :
                    LET r2 == Then(r.conv, u, next)
                    IN  r2.said = <<Msg("main_menu")>> /\ r2.conv[u] = AwaitingChoice

\* what the handler does with "done" from a user in the epic flow: the
\* greeting test comes first and the entry stays, reset to awaiting_choice
C2_Divergence ==
    \E u \in DOMAIN conversation_states :
       /\ GetStr(conversation_states[u], "step") = "epic_creation"
       /\ is_done_message(Text.done)
       /\ LET r == Turn(u, Text.done, {})
          IN  /\ u \in DOMAIN r.conv
              /\ r.conv[u] = AwaitingChoice
              /\ r.said = <<Msg("main_menu")>>

\* the messages the greeting branch hands to say: the main menu, and the
\* apology when that call raised
GreetingOnly(r) ==
    r.said \in {<<Msg("main_menu")>>, <<Msg("main_menu"), Msg("apology")>>}

\* C3: in every state, a greeting (a greeting phrase inside the text, or at
\* most two tokens), and any message from a user without an entry, leaves the
\* user's entry exactly {step: awaiting_choice}, renders the main menu, runs
\* no step handler and starts no workflow.
C3_GreetingTransition ==
    \A u \in Users, text \in Texts, fails \in SUBSET (1..MaxCalls) :
       (is_greeting_or_initial(Strip(text)) \/ u \notin DOMAIN conversation_states) =>
          LET r == Turn(u, text, fails)
          IN  /\ u \in DOMAIN r.conv
              /\ r.conv[u] = AwaitingChoice
              /\ GreetingOnly(r)
              /\ r.spawn = <<>>

\* a user with an intent stored sends a text of three tokens that holds a
\* greeting phrase, and the entry loses the intent
C3_Witness ==
    \E u \in DOMAIN conversation_states :
       /\ "epic_data" \in DOMAIN conversation_states[u]
       /\ NumTokens(Text.confirm_this) > 2
       /\ is_greeting_or_initial(Text.confirm_this)
       /\ Turn(u, Text.confirm_this, {}).conv[u] = AwaitingChoice

InConfirming(u) ==
    /\ u \in DOMAIN conversation_states
    /\ GetStr(conversation_states[u], "step") = "epic_creation"
    /\ GetStr(conversation_states[u], "substep") = "confirming"

\* the epic-creation step handler is handed text in the current state
EpicStep(u, text, fails) ==
    enhanced_handle_epic_creation(Ctx(conversation_states, fails), u, Strip(text))

StepHandlers ==
    {"awaiting_choice", "epic_creation", "meeting_processing", "meeting_search",
     "document_epic_creation", "awaiting_epic_approval", "collecting_epic_feedback"}

\* the try block of the top-level handler run on text in the current state
Tried(u, text, fails) ==
    dispatch_message(Ctx(conversation_states, fails), u, Strip(text))

SameEntry(f, g, v) ==
    /\ (v \in DOMAIN f) = (v \in DOMAIN g)
    /\ v \in DOMAIN f => f[v] = g[v]

\* the pending proposals of v are the same in props and props2
SameProposals(props, props2, v) ==
    /\ HasProposals(props, v) = HasProposals(props2, v)
    /\ HasProposals(props, v) => props[1][v] = props2[1][v]

\* C6: whatever a user u sends and whichever calls raise while it is
\* handled, and whatever step a workflow started for u makes, with whatever
\* outcome, the conversation entry and the pending proposals of every other
\* user stay as they are; this holds in every state the two users' messages
\* and workflows can reach in any interleaving.
C6_PerUserIsolation ==
    /\ \A u \in Users, text \in CoreTexts, fails \in SUBSET (1..MaxCalls) :
          \A v \in Users \ {u} :
             SameEntry(conversation_states, Turn(u, text, fails).conv, v)
    /\ \A i \in 1..Len(tasks) :
          \A e \in Steps(i) :
             \A v \in Users \ {tasks[i].user} :
                /\ SameEntry(conversation_states, e.conv, v)
                /\ SameProposals(epic_proposals, e.props, v)

\* a workflow of one user ends and resets that user's entry while the other
\* user is in the middle of a flow and has proposals pending
C6_Witness ==
    \E i \in 1..Len(tasks) :
       \E e \in Steps(i) :
          \E v \in Users \ {tasks[i].user} :
             /\ e.done
             /\ e.conv # conversation_states
             /\ v \in DOMAIN conversation_states
             /\ conversation_states[v] # AwaitingChoice
             /\ HasProposals(epic_proposals, v)
             /\ Turn(tasks[i].user, Text.hi, {1}).conv # conversation_states

\* the port calls of a returned meeting workflow that raised
Raised(p, k) ==
    \E j \in 1..Len(p.log) :
       /\ p.log[j].call # "get_meetings"
       /\ p.log[j].meeting_id = p.meetings[k].meeting_id
       /\ ~p.log[j].ok

\* C7: process_meeting_notes_to_confluence and search_and_process_meetings,
\* once the retrieval has given a non-empty list of N meetings to process,
\* call the AI processing for every one of them whichever calls raise, and
\* return success = true, processed_meetings = N and N results in the order
\* of the meetings, where exactly the meetings one of whose calls raised have
\* success = false.
C7_MeetingPartialFailure ==
    \A i \in 1..Len(tasks) :
       tasks[i].kind = "meetings" =>
          \A e \in Steps(i) :
             (e.done /\ "meetings" \in DOMAIN e.p) =>
                LET p == e.p
                    N == Len(p.meetings)
                IN  /\ N > 0
                    /\ p.result.success
                    /\ p.result.processed_meetings = N
                    /\ Len(p.result.results) = N
                    /\ \A k \in 1..N :
                          /\ p.result.results[k].meeting_id = p.meetings[k].meeting_id
                          /\ p.result.results[k].success = ~Raised(p, k)
                          /\ \E j \in 1..Len(p.log) :
                                /\ p.log[j].call = "process_meeting_notes"
                                /\ p.log[j].meeting_id = p.meetings[k].meeting_id

\* a call returns for two meetings, the first failed and the second published
C7_Witness ==
    \E i \in 1..Len(tasks) :
       \E e \in Steps(i) :
          /\ tasks[i].kind = "meetings"
          /\ e.done
          /\ "meetings" \in DOMAIN e.p
          /\ Len(e.p.meetings) = 2
          /\ Raised(e.p, 1)
          /\ ~Raised(e.p, 2)
          /\ e.p.result.results[2].success
          /\ e.p.result.processed_meetings = 2

\* the generation for the k-th feature of the call p returned a story
Generated(p, k) ==
    \E j \in 1..Len(p.log) : p.log[j].i = k /\ p.log[j].ok

\* the features of p in order, those whose generation raised left out
RECURSIVE Succeeded(_, _)
Succeeded(p, k) ==
    IF k > Len(p.features) THEN <<>>
    ELSE (IF Generated(p, k) THEN <<[feature |-> p.features[k]]>> ELSE <<>>)
         \o Succeeded(p, k + 1)

\* C8: generate_user_stories starts one generation per feature and waits
\* for all of them; in whatever order they complete and whichever of them
\* raise, it returns, and what it returns holds exactly one story for each
\* feature whose generation returned and none for the others.
C8_StoryGenerationIsolation ==
    \A i \in 1..Len(tasks) :
       tasks[i].kind = "stories" =>
          \A e \in Steps(i) :
             /\ e.done =>
                   /\ Len(e.p.log) = Len(e.p.features)
                   /\ \A k \in 1..Len(e.p.features) :
                         Cardinality({j \in 1..Len(e.p.log) : e.p.log[j].i = k}) = 1
                   /\ e.p.result = Succeeded(e.p, 1)
                   /\ e.p.result \in GeneratedStories(e.p.features)
             /\ ~e.done => "result" \notin DOMAIN e.p

\* three generations complete out of order, the second raises, and the call
\* returns the stories of the first and the third feature
C8_Witness ==
    \E i \in 1..Len(tasks) :
       \E e \in Steps(i) :
          /\ tasks[i].kind = "stories"
          /\ e.done
          /\ Len(e.p.features) = 3
          /\ e.p.log[1].i = 3
          /\ e.p.log[2].i = 2 /\ ~e.p.log[2].ok
          /\ e.p.result = <<[feature |-> Feature(1)], [feature |-> Feature(3)]>>

\* the port calls with this name in the log of p
Calls(p, name) == SelectSeq(p.log, LAMBDA c : c.call = name)

CreateEpicRaised(p) ==
    \E j \in 1..Len(p.log) : p.log[j].call = "create_epic" /\ ~p.log[j].ok

CreateEpicReturned(p) ==
    \E j \in 1..Len(p.log) : p.log[j].call = "create_epic" /\ p.log[j].ok

\* C9: when create_epic raises, the invocation generates no story and
\* creates none, and it ends in failure: create_epic_with_stories returns
\* success = false with no epic, and _process_epic_creation sends the error
\* message and no success response.
C9_CreateEpicFailureIsFatal ==
    \A i \in 1..Len(tasks) :
       tasks[i].kind \in {"epic_with_stories", "epic"} =>
          \A e \in Steps(i) :
             CreateEpicRaised(e.p) =>
                /\ e.done
                /\ Calls(e.p, "generate_user_stories") = <<>>
                /\ Calls(e.p, "create_user_story") = <<>>
                /\ ~e.p.result.success
                /\ tasks[i].kind = "epic_with_stories" => e.p.result.epic = <<>>
                /\ tasks[i].kind = "epic" =>
                      /\ e.said[1] = Msg("error_creating_epic")
                      /\ \A k \in 1..Len(e.said) : e.said[k].msg # "epic_response"

\* create_epic raises in the chat workflow after the features were
\* generated, and the error message is sent
C9_Witness ==
    \E i \in 1..Len(tasks) :
       \E e \in Steps(i) :
          /\ tasks[i].kind = "epic"
          /\ CreateEpicRaised(e.p)
          /\ Calls(e.p, "generate_features") # <<>>
          /\ e.done
          /\ ~e.p.result.success
          /\ e.said[1] = Msg("error_creating_epic")

\* the epic of the response a returned workflow gave
ResponseEpic(p) ==
    IF p.kind = "epic_with_stories" THEN p.result.epic ELSE <<p.result.epic>>

\* C10: when create_epic has returned, the workflow ends with success =
\* true, the epic that was created, and user_stories_count equal to the
\* number of create_user_story calls that returned; create_user_story is
\* called once for every generated story, whichever of the calls raise.
C10_PartialStoryFailures ==
    \A i \in 1..Len(tasks) :
       tasks[i].kind \in {"epic_with_stories", "epic"} =>
          \A e \in Steps(i) :
             (e.done /\ CreateEpicReturned(e.p)) =>
                LET p == e.p
                    created == Calls(p, "create_epic")[1]
                    attempts == Calls(p, "create_user_story")
                    generated == Calls(p, "generate_user_stories")
                IN  /\ p.result.success
                    /\ ResponseEpic(p) = <<Epic(created.key, p.req)>>
                    /\ p.result.user_stories_count =
                          Len(SelectSeq(attempts, LAMBDA c : c.ok))
                    /\ Len(attempts) = IF generated = <<>> THEN 0 ELSE generated[1].n
                    /\ \A k \in 1..Len(attempts) : attempts[k].epic_key = created.key

\* two stories were generated, creating the first raised, the second was
\* still created, and the response counts one story
C10_Witness ==
    \E i \in 1..Len(tasks) :
       \E e \in Steps(i) :
          /\ tasks[i].kind \in {"epic_with_stories", "epic"}
          /\ e.done
          /\ CreateEpicReturned(e.p)
          /\ Len(Calls(e.p, "create_user_story")) = 2
          /\ ~Calls(e.p, "create_user_story")[1].ok
          /\ Calls(e.p, "create_user_story")[2].ok
          /\ e.p.result.success
          /\ e.p.result.user_stories_count = 1

\* the positions of the log of p that hold a call with this name
Positions(p, name) == {j \in 1..Len(p.log) : p.log[j].call = name}

\* the stories generate_user_stories handed back to the invocation p
StoriesOf(p) ==
    IF p.kind = "epic"
    THEN (IF "user_stories" \in DOMAIN p THEN p.user_stories ELSE <<>>)
    ELSE (IF "generated_stories" \in DOMAIN p THEN p.generated_stories ELSE <<>>)

\* the invocation p went past feature generation: it had preferred features,
\* or generated some, or is the class-method flow, which goes on either way
PastFeatures(p) ==
    \/ p.kind = "epic_with_stories"
    \/ Calls(p, "generate_features") = <<>>
    \/ Calls(p, "generate_features")[1].n > 0

\* C11: at every point of an invocation of the epic workflow create_epic has
\* been called at most once and generate_user_stories at most once; every
\* generate_user_stories and create_user_story call comes after a create_epic
\* call that returned; the create_user_story calls are made one after the
\* other for the generated stories in their order, each with the key that
\* create_epic call returned; and an invocation that went past feature
\* generation has called create_epic exactly once when it ends, and
\* create_user_story once per generated story when create_epic returned.
C11_EpicWorkflowOrdering ==
    \A i \in 1..Len(tasks) :
       tasks[i].kind \in {"epic_with_stories", "epic"} =>
          \A e \in Steps(i) :
             LET p   == e.p
                 ce  == Calls(p, "create_epic")
                 gus == Calls(p, "generate_user_stories")
                 cus == Calls(p, "create_user_story")
             IN  /\ Len(ce) <= 1
                 /\ Len(gus) <= 1
                 /\ \A j \in Positions(p, "generate_user_stories")
                              \cup Positions(p, "create_user_story") :
                       \E k \in 1..(j - 1) :
                          p.log[k].call = "create_epic" /\ p.log[k].ok
                 /\ \A j \in Positions(p, "create_user_story") :
                       \E k \in 1..(j - 1) : p.log[k].call = "generate_user_stories"
                 /\ Len(cus) <= Len(StoriesOf(p))
                 /\ \A k \in 1..Len(cus) :
                       /\ cus[k].epic_key = ce[1].key
                       /\ cus[k].feature = StoriesOf(p)[k].feature
                 /\ (e.done /\ PastFeatures(p)) => Len(ce) = 1
                 /\ (e.done /\ CreateEpicReturned(p)) =>
                       /\ Len(cus) = Len(StoriesOf(p))
                       /\ gus # <<>> => gus[1].n = Len(StoriesOf(p))

\* an invocation ends after create_epic returned the second key, two stories
\* were generated and create_user_story was called for both with that key
C11_Witness ==
    \E i \in 1..Len(tasks) :
       \E e \in Steps(i) :
          /\ tasks[i].kind \in {"epic_with_stories", "epic"}
          /\ e.done
          /\ Calls(e.p, "create_epic") = <<[call |-> "create_epic", ok |-> TRUE, key |-> "K2"]>>
          /\ Len(Calls(e.p, "generate_user_stories")) = 1
          /\ Len(Calls(e.p, "create_user_story")) = 2
          /\ Calls(e.p, "create_user_story")[2].epic_key = "K2"

\* the class-method flow p asked the AI port for features and got none
NoFeaturesGenerated(p) ==
    /\ Calls(p, "generate_features") # <<>>
    /\ Calls(p, "generate_features")[1].n = 0

\* C12: when create_epic_with_stories is called without preferred features
\* and with generate_features = true, and generate_features returns the
\* empty list, create_epic is not called and the call returns success =
\* false.
C12_EmptyFeaturesFatalInClassMethod ==
    \A i \in 1..Len(tasks) :
       tasks[i].kind = "epic_with_stories" =>
          \A e \in Steps(i) :
             NoFeaturesGenerated(e.p) =>
                /\ Calls(e.p, "create_epic") = <<>>
                /\ e.done => ~e.p.result.success

\* what the code does instead: after the empty feature list create_epic is
\* called, and when it returns the call returns success = true with the epic
\* and no story, without calling generate_user_stories
C12_Divergence ==
    \E i \in 1..Len(tasks) :
       \E e \in Steps(i) :
          /\ tasks[i].kind = "epic_with_stories"
          /\ tasks[i].generate_features
          /\ NoFeaturesGenerated(e.p)
          /\ CreateEpicReturned(e.p)
          /\ e.done
          /\ e.p.result.success
          /\ e.p.result.epic # <<>>
          /\ e.p.result.user_stories_count = 0
          /\ Calls(e.p, "generate_user_stories") = <<>>

\* C13: when _process_epic_creation runs without preferred features and
\* generate_features returns the empty list, the workflow ends there: it has
\* called neither create_epic nor generate_user_stories nor
\* create_user_story, it sends the failure message and the main menu, and it
\* sets the user's conversation state to awaiting_choice, leaving the other
\* entries and the proposals as they were.
C13_EmptyFeaturesFatalInChat ==
    \A i \in 1..Len(tasks) :
       tasks[i].kind = "epic" =>
          \A e \in Steps(i) :
             NoFeaturesGenerated(e.p) =>
                /\ tasks[i].req.preferred_features = <<>>
                /\ e.done
                /\ Calls(e.p, "create_epic") = <<>>
                /\ Calls(e.p, "generate_user_stories") = <<>>
                /\ Calls(e.p, "create_user_story") = <<>>
                /\ e.said = <<Msg("failed_to_generate_features"), Msg("main_menu")>>
                /\ tasks[i].user \in DOMAIN e.conv
                /\ e.conv[tasks[i].user] = [step |-> "awaiting_choice"]
                /\ \A v \in DOMAIN conversation_states \ {tasks[i].user} :
                      v \in DOMAIN e.conv /\ e.conv[v] = conversation_states[v]
                /\ e.props = epic_proposals

\* the chat workflow asks for features, gets none and ends with the failure
\* message
C13_Witness ==
    \E i \in 1..Len(tasks) :
       \E e \in Steps(i) :
          /\ tasks[i].kind = "epic"
          /\ tasks[i].pc = "generate_features"
          /\ NoFeaturesGenerated(e.p)
          /\ e.done
          /\ e.said[1] = Msg("failed_to_generate_features")
          /\ e.conv[tasks[i].user] = AwaitingChoice

\* the retrieval of the meeting workflow p returned no meeting
NoneRetrieved(p) ==
    /\ Calls(p, "get_meetings") # <<>>
    /\ Calls(p, "get_meetings")[1].n = 0

\* C14: when the calendar port returns no meetings,
\* process_meeting_notes_to_confluence and search_and_process_meetings
\* return at once with success = false and an error saying that nothing was
\* found ("No meetings found", "No meetings found matching ..." for the
\* search, "Meeting with ID ... not found" when a meeting id was given), and
\* the retrieval is the only port call they have made.
C14_EmptyRetrievalIsTerminal ==
    \A i \in 1..Len(tasks) :
       tasks[i].kind = "meetings" =>
          \A e \in Steps(i) :
             NoneRetrieved(e.p) =>
                /\ e.done
                /\ ~e.p.result.success
                /\ e.p.result.error =
                      (IF e.p.search THEN "no_meetings_found_matching"
                       ELSE IF e.p.meeting_id = <<>> THEN "no_meetings_found"
                       ELSE "meeting_with_id_not_found")
                /\ "results" \notin DOMAIN e.p.result
                /\ e.p.log = Calls(e.p, "get_meetings")
                /\ Len(e.p.log) = 1

\* a workflow called without a meeting id returns the failure after an empty
\* retrieval
C14_Witness ==
    \E i \in 1..Len(tasks) :
       \E e \in Steps(i) :
          /\ tasks[i].kind = "meetings"
          /\ tasks[i].meeting_id = <<>>
          /\ NoneRetrieved(e.p)
          /\ e.done
          /\ ~e.p.result.success
          /\ e.p.result.error \in {"no_meetings_found", "no_meetings_found_matching"}

\* the user u is in the document flow
InDocumentFlow(u) ==
    /\ u \in DOMAIN conversation_states
    /\ GetStr(conversation_states[u], "step") = "document_epic_creation"

\* messages that bear a document: each holds one Confluence link
DocumentTexts == {Text.link, Text.see_wiki, Text.and_wiki}

\* every fragment of the documents dict a is in the documents dict b, under
\* the same type
FragmentsKept(a, b) ==
    \A k \in DOMAIN a :
       \A j \in 1..Len(a[k]) :
          /\ k \in DOMAIN b
          /\ \E m \in 1..Len(b[k]) : b[k][m] = a[k][j]

\* the documents stored for u in the store conv
StoredDocuments(conv, u) ==
    IF u \in DOMAIN conv /\ "documents" \in DOMAIN conv[u]
    THEN conv[u].documents
    ELSE collect_documents(<<>>)

\* C15: in the document flow, after the document step handler has handled a
\* document-bearing message and then another one, the documents of the
\* user's state hold every fragment stored before, every fragment of the
\* first message and every fragment of the second.
C15_DocumentAccumulation ==
    \A u \in Users :
       InDocumentFlow(u) =>
          \A t1 \in DocumentTexts, t2 \in DocumentTexts :
             LET r1 == enhanced_handle_document_epic(Ctx(conversation_states, {}), u, t1)
                 r2 == enhanced_handle_document_epic(Ctx(r1.conv, {}), u, t2)
             IN  /\ FragmentsKept(StoredDocuments(conversation_states, u),
                                  StoredDocuments(r1.conv, u))
                 /\ FragmentsKept(collect_documents(t1), StoredDocuments(r1.conv, u))
                 /\ FragmentsKept(StoredDocuments(r1.conv, u), StoredDocuments(r2.conv, u))
                 /\ FragmentsKept(collect_documents(t2), StoredDocuments(r2.conv, u))

\* what the code does instead: a user in the document flow sends one link and
\* then another through the message handler; after the second message the
\* state holds the second link alone
C15_Divergence ==
    \E u \in Users :
       /\ InDocumentFlow(u)
       /\ LET r1 == Then(conversation_states, u, Text.see_wiki)
              r2 == Then(r1.conv, u, Text.and_wiki)
          IN  /\ r1.conv[u].substep = "confirming_documents"
              /\ r1.conv[u].documents.confluence_links
                    = confluence_links_in(Text.see_wiki)
              /\ Len(confluence_links_in(Text.see_wiki)) = 1
              /\ r2.conv[u].step = "document_epic_creation"
              /\ r2.conv[u].substep = "confirming_documents"
              /\ r2.conv[u].documents.confluence_links
                    = confluence_links_in(Text.and_wiki)
              /\ r2.said = <<[msg |-> "documents_collected", confluence_links |-> 1,
                              prd_documents |-> 0, meeting_notes |-> 0,
                              attachments |-> 0]>>

\* the user u is in document_epic_creation/confirming_documents
InConfirmingDocuments(u) ==
    /\ InDocumentFlow(u)
    /\ GetStr(conversation_states[u], "substep") = "confirming_documents"

\* C16: in document_epic_creation/confirming_documents, "analyze" hands the
\* collected documents to the document-analysis workflow as a background
\* task and leaves the user's state other than
\* document_epic_creation/confirming_documents; "cancel" sets the state to
\* awaiting_choice and dispatches nothing.
C16_DocumentAnalysisTrigger ==
    \A u \in Users :
       InConfirmingDocuments(u) =>
          LET a == enhanced_handle_document_epic(Ctx(conversation_states, {}), u, Word.analyze)
              c == enhanced_handle_document_epic(Ctx(conversation_states, {}), u, Word.cancel)
          IN  /\ a.spawn = <<DocsTask(u, conversation_states[u].documents)>>
              /\ ~(/\ u \in DOMAIN a.conv
                   /\ GetStr(a.conv[u], "step") = "document_epic_creation"
                   /\ GetStr(a.conv[u], "substep") = "confirming_documents")
              /\ c.conv[u] = [step |-> "awaiting_choice"]
              /\ c.spawn = <<>>

\* what the code does instead: "analyze" starts the workflow with the
\* collected documents and leaves the conversation store as it was, so the
\* user is still in confirming_documents and a second "analyze" starts the
\* workflow again; "cancel" does what the specification says
C16_Divergence ==
    \E u \in Users :
       /\ InConfirmingDocuments(u)
       /\ LET a == enhanced_handle_document_epic(Ctx(conversation_states, {}), u, Word.analyze)
              b == enhanced_handle_document_epic(Ctx(a.conv, {}), u, Word.analyze)
              c == enhanced_handle_document_epic(Ctx(conversation_states, {}), u, Word.cancel)
          IN  /\ a.spawn = <<DocsTask(u, conversation_states[u].documents)>>
              /\ a.said = <<Msg("processing_documents")>>
              /\ a.conv = conversation_states
              /\ b.spawn = a.spawn
              /\ c.conv[u] = AwaitingChoice
              /\ c.spawn = <<>>
              /\ c.said = <<Msg("analysis_cancelled"), Msg("main_menu")>>

\* the fragment with this type and this text or link is in the list handed
\* to the analysis, under its type and source tag
InBlob(blob, type, fragment) ==
    \E j \in 1..Len(blob) :
       /\ blob[j].type = type
       /\ IF type = "confluence"
          THEN blob[j].source = fragment
          ELSE blob[j].content = fragment

\* C17: what process_epic_creation_from_documents passes to the analysis
\* holds every collected fragment of every type: each Confluence link, each
\* PRD document, each meeting note and each attachment, under its tag.
C17_DocumentBlobCompleteness ==
    \A i \in 1..Len(tasks) :
       tasks[i].kind = "docs" =>
          \A e \in Steps(i) :
             Calls(e.p, "analyze_documents_for_epics") # <<>> =>
                LET blob == Calls(e.p, "analyze_documents_for_epics")[1].documents
                    d    == tasks[i].documents
                IN  /\ \A j \in 1..Len(d.confluence_links) :
                          InBlob(blob, "confluence", d.confluence_links[j])
                    /\ \A j \in 1..Len(d.prd_documents) :
                          InBlob(blob, "prd", d.prd_documents[j])
                    /\ \A j \in 1..Len(d.meeting_notes) :
                          InBlob(blob, "meeting_notes", d.meeting_notes[j])
                    /\ \A j \in 1..Len(d.attachments) :
                          InBlob(blob, "attachment", d.attachments[j])

\* what the code does instead: the workflow was given one attachment and
\* nothing else, and the analysis is called with nothing
C17_Divergence ==
    \E i \in 1..Len(tasks) :
       \E e \in Steps(i) :
          /\ tasks[i].kind = "docs"
          /\ Len(tasks[i].documents.attachments) = 1
          /\ total_docs(tasks[i].documents) = 1
          /\ Calls(e.p, "analyze_documents_for_epics") # <<>>
          /\ Calls(e.p, "analyze_documents_for_epics")[1].documents = <<>>

\* the approval call p is in the loop over the proposals of its user
Approving(p) ==
    /\ p.kind = "approval"
    /\ p.pc = "create_epic_with_stories"

\* the invocations of create_epic_with_stories in the log of p that returned
\* success
Created(p) == Len(SelectSeq(p.log, LAMBDA c : c.success))

\* C18: handle_epic_approval_response called with "approve" for a user with
\* n pending proposals takes those proposals, invokes create_epic_with_stories
\* once per proposal in proposal order, going on to the next proposal whether
\* the invocation succeeded or failed, and ends after the n-th; the summary
\* counts created and failed epics with created + failed = n, the returned
\* result holds the same counts when the user's proposals are still pending
\* as the loop ends, and afterwards the user has no pending proposals.
C18_ApprovalResolution ==
    \A i \in 1..Len(tasks) :
       /\ (/\ tasks[i].kind = "approval"
           /\ tasks[i].pc = "start"
           /\ ToLower(tasks[i].response) = Word.approve
           /\ HasProposals(epic_proposals, tasks[i].user)) =>
             \A e \in Steps(i) :
                /\ ~e.done
                /\ Approving(e.p)
                /\ e.p.proposals = epic_proposals[1][tasks[i].user].proposals
                /\ e.p.proposals # <<>>
                /\ e.p.k = 1
                /\ e.p.log = <<>>
       /\ Approving(tasks[i]) =>
             \A e \in Steps(i) :
                LET p == e.p
                    n == Len(p.proposals)
                IN  /\ Len(p.log) = tasks[i].k
                    /\ \A k \in 1..Len(p.log) :
                          /\ p.log[k].call = "create_epic_with_stories"
                          /\ p.log[k].title = p.proposals[k].title
                    /\ e.done = (tasks[i].k = n)
                    /\ ~e.done => (Approving(p) /\ p.k = tasks[i].k + 1)
                    /\ Len(p.created_epics) = Created(p)
                    /\ Len(p.created_epics) + Len(p.failed_epics) = Len(p.log)
                    /\ e.done =>
                          /\ e.said[1] = [msg |-> "epic_creation_summary",
                                          created |-> Created(p),
                                          failed  |-> n - Created(p)]
                          /\ ~HasProposals(e.props, tasks[i].user)
                          /\ HasProposals(epic_proposals, tasks[i].user) =>
                                /\ p.result.success
                                /\ p.result.created = Created(p)
                                /\ p.result.created + p.result.failed = n

\* an approval of two proposals ends: the first invocation failed, the second
\* created its epic, and the result counts one created and one failed
C18_Witness ==
    \E i \in 1..Len(tasks) :
       \E e \in Steps(i) :
          /\ Approving(tasks[i])
          /\ e.done
          /\ Len(e.p.proposals) = 2
          /\ ~e.p.log[1].success
          /\ e.p.log[2].success
          /\ e.p.result = [success |-> TRUE, created |-> 1, failed |-> 1]
          /\ HasProposals(epic_proposals, tasks[i].user)
          /\ ~HasProposals(e.props, tasks[i].user)

\* the user u is in step awaiting_epic_approval in the store conv
AwaitsApproval(conv, u) ==
    u \in DOMAIN conv /\ GetStr(conv[u], "step") = "awaiting_epic_approval"

\* C19: when handle_epic_approval_response has processed "approve" for a
\* user in step awaiting_epic_approval, the user has no conversation entry.
C19_ApprovalClearsEntry ==
    \A i \in 1..Len(tasks) :
       (Approving(tasks[i]) /\ AwaitsApproval(conversation_states, tasks[i].user)) =>
          \A e \in Steps(i) :
             e.done => tasks[i].user \notin DOMAIN e.conv

\* what the code does instead: the approval ends with the epics created and
\* the pending proposals deleted, and the conversation store is as it was:
\* the user is still in awaiting_epic_approval with the proposals in the
\* entry, and the next response finds nothing pending
C19_Divergence ==
    \E i \in 1..Len(tasks) :
       \E e \in Steps(i) :
          /\ Approving(tasks[i])
          /\ AwaitsApproval(conversation_states, tasks[i].user)
          /\ e.done
          /\ e.p.result.success
          /\ e.p.result.created > 0
          /\ ~HasProposals(e.props, tasks[i].user)
          /\ e.conv = conversation_states
          /\ e.conv[tasks[i].user] = AwaitingApproval(e.p.proposals)
          /\ handle_epic_approval_response(
                 ApprovalTask(tasks[i].user, Word.approve), e.conv, e.props)
             = {no_pending_proposals(
                    ApprovalTask(tasks[i].user, Word.approve), e.conv, e.props)}

\* C20: handle_epic_approval_response called, with whatever response, for a
\* user without pending proposals sends the "no pending proposals" message
\* and nothing else, returns a failure result, invokes no epic-creation
\* workflow, and leaves the conversation store and the pending-proposal
\* store as they were.
C20_NoPendingProposals ==
    \A i \in 1..Len(tasks) :
       (/\ tasks[i].kind = "approval"
        /\ tasks[i].pc = "start"
        /\ ~HasProposals(epic_proposals, tasks[i].user)) =>
          /\ Steps(i) # {}
          /\ \A e \in Steps(i) :
                /\ e.done
                /\ e.said = <<Msg("no_pending_proposals")>>
                /\ ~e.p.result.success
                /\ e.p.result.error = "no_pending_proposals"
                /\ e.p.log = <<>>
                /\ e.conv = conversation_states
                /\ e.props = epic_proposals

\* "approve" arrives for a user who is still in awaiting_epic_approval while
\* nothing is pending any more, and the call returns the failure
C20_Witness ==
    \E i \in 1..Len(tasks) :
       /\ tasks[i].kind = "approval"
       /\ tasks[i].pc = "start"
       /\ tasks[i].response = Word.approve
       /\ epic_proposals # <<>>
       /\ ~HasProposals(epic_proposals, tasks[i].user)
       /\ AwaitsApproval(conversation_states, tasks[i].user)
       /\ \E e \in Steps(i) : e.done /\ ~e.p.result.success

(***************************************************************************)
(* Rejection, regeneration and cancellation of pending proposals.          *)
(***************************************************************************)
\* a call of handle_epic_approval_response about to read the response of a
\* user who has pending proposals
Responding(p) ==
    /\ p.kind = "approval"
    /\ p.pc = "start"
    /\ HasProposals(epic_proposals, p.user)

\* C21: on "reject" with pending proposals the call ends with the user's
\* step collecting_epic_feedback, the entry carrying the pending proposals,
\* the pending proposals as they were and no epic creation invoked; a
\* response that is none of approve, reject and cancel ends the call with
\* the conversation states and the pending proposals as they were
C21_Rejection ==
    \A i \in 1..Len(tasks) :
       Responding(tasks[i])
       => \A e \in Steps(i) :
             LET p        == tasks[i]
                 response == ToLower(p.response)
                 pending  == epic_proposals[1][p.user].proposals
             IN  /\ response = Word.reject
                    => /\ e.done
                       /\ p.user \in DOMAIN e.conv
                       /\ e.conv[p.user] = [step |-> "collecting_epic_feedback",
                                            proposals |-> pending]
                       /\ \A v \in Users \ {p.user} :
                             SameEntry(conversation_states, e.conv, v)
                       /\ e.props = epic_proposals
                       /\ Calls(e.p, "create_epic_with_stories") = <<>>
                       /\ e.said = <<Msg("please_provide_feedback")>>
                 /\ response \notin {Word.approve, Word.reject, Word.cancel}
                    => /\ e.done
                       /\ e.conv = conversation_states
                       /\ e.props = epic_proposals
                       /\ Calls(e.p, "create_epic_with_stories") = <<>>
                       /\ e.said = <<Msg("invalid_response")>>

\* C21 happens: a rejection of pending proposals is about to move the user
\* from awaiting_epic_approval to collecting_epic_feedback
C21_Witness ==
    \E i \in 1..Len(tasks) :
       /\ Responding(tasks[i])
       /\ ToLower(tasks[i].response) = Word.reject
       /\ AwaitsApproval(conversation_states, tasks[i].user)
       /\ \E e \in Steps(i) :
             e.conv[tasks[i].user].step = "collecting_epic_feedback"

\* C23: on "cancel" with pending proposals the call ends with neither
\* pending proposals nor a conversation entry for the user, the other users'
\* entries and proposals as they were, and no epic creation invoked
C23_Cancellation ==
    \A i \in 1..Len(tasks) :
       (Responding(tasks[i]) /\ ToLower(tasks[i].response) = Word.cancel)
       => \A e \in Steps(i) :
             LET p == tasks[i]
             IN  /\ e.done
                 /\ ~HasProposals(e.props, p.user)
                 /\ p.user \notin DOMAIN e.conv
                 /\ \A v \in Users \ {p.user} :
                       /\ SameEntry(conversation_states, e.conv, v)
                       /\ SameProposals(epic_proposals, e.props, v)
                 /\ Calls(e.p, "create_epic_with_stories") = <<>>
                 /\ e.said = <<Msg("epic_creation_cancelled")>>

\* C23 happens: a cancellation is about to remove the pending proposals and
\* the entry of a user awaiting approval
C23_Witness ==
    \E i \in 1..Len(tasks) :
       /\ Responding(tasks[i])
       /\ ToLower(tasks[i].response) = Word.cancel
       /\ AwaitsApproval(conversation_states, tasks[i].user)
       /\ \E e \in Steps(i) : tasks[i].user \notin DOMAIN e.conv

\* the user u is in step collecting_epic_feedback and has pending proposals
GivingFeedback(u) ==
    /\ u \in DOMAIN conversation_states
    /\ GetStr(conversation_states[u], "step") = "collecting_epic_feedback"
    /\ HasProposals(epic_proposals, u)

\* C22: non-empty feedback from a user in collecting_epic_feedback with
\* pending proposals starts one regeneration with the pending proposals and
\* the feedback; and when the regeneration port returns a non-empty list to
\* a regeneration, the call ends with that list as the user's pending
\* proposals and with the user's entry in step awaiting_epic_approval
\* carrying the same list
C22_Regeneration ==
    /\ \A u \in Users, text \in FeedbackTexts :
          GivingFeedback(u)
          => LET r == enhanced_handle_epic_feedback(Ctx(conversation_states, {}), u, text)
             IN  /\ r.spawn = <<RegenerateTask(u, epic_proposals[1][u].proposals, text)>>
                 /\ r.said = <<Msg("feedback_received")>>
                 /\ ~r.exc
    /\ \A i \in 1..Len(tasks) :
          (tasks[i].kind = "regenerate" /\ tasks[i].pc = "regenerate")
          => \A e \in Steps(i) :
                LET answers == Calls(e.p, "regenerate_epics_with_feedback")
                IN  /\ Len(answers) = 1
                    /\ (answers[1].ok /\ answers[1].updated_proposals # <<>>)
                       => /\ e.done
                          /\ HasProposals(e.props, tasks[i].user)
                          /\ e.props[1][tasks[i].user].proposals
                                = answers[1].updated_proposals
                          /\ tasks[i].user \in DOMAIN e.conv
                          /\ e.conv[tasks[i].user]
                                = [step |-> "awaiting_epic_approval",
                                   proposals |-> answers[1].updated_proposals]
                          /\ e.said = <<Msg("updated_epic_proposals")>>

\* C22 happens: the regeneration started by the feedback of a user in
\* collecting_epic_feedback is about to replace the pending proposals by a
\* longer list
C22_Witness ==
    \E i \in 1..Len(tasks) :
       /\ tasks[i].kind = "regenerate"
       /\ tasks[i].pc = "regenerate"
       /\ GivingFeedback(tasks[i].user)
       /\ conversation_states[tasks[i].user].feedback = tasks[i].feedback
       /\ \E e \in Steps(i) :
             /\ HasProposals(e.props, tasks[i].user)
             /\ Len(e.props[1][tasks[i].user].proposals)
                   > Len(epic_proposals[1][tasks[i].user].proposals)
             /\ AwaitsApproval(e.conv, tasks[i].user)

(***************************************************************************)
(* The workflows started from the chat run to their end.                   *)
(***************************************************************************)
\* the awaits of the workflows started from the chat, in the order a
\* workflow passes them
Stages ==
    <<"start", "generate_features", "create_epic", "generate_user_stories",
      "create_user_story", "get_meetings", "process_meeting_notes",
      "create_confluence_content", "create_confluence_page">>

\* the indexes the loops over user stories and over meetings take, 0 before
\* the loop
LoopIndexes == 0..(MaxMeetings + MaxFeatures)

\* where the coroutine p is: the iteration of its loop and the await in it
At(p) ==
    [i     |-> IF "i" \in DOMAIN p THEN p.i ELSE 0,
     stage |-> CHOOSE k \in 1..Len(Stages) : Stages[k] = p.pc]

\* a comes before b in a run of a workflow
Before(a, b) == a.i < b.i \/ (a.i = b.i /\ a.stage < b.stage)

\* the first message a finishing workflow sends: its result or its error
FinalReports(p) ==
    IF p.kind = "epic"
    THEN {"epic_response", "error_creating_epic", "failed_to_generate_features"}
    ELSE IF p.search THEN {"meeting_search_complete", "search_failed"}
    ELSE {"meeting_processing_complete", "processing_failed"}

\* every step of a workflow started from the chat either takes it to a later
\* await, or ends it with a report sent, the main menu sent last, and the
\* user's entry reset to step awaiting_choice
StepsLeadToMenu ==
    \A i \in 1..Len(tasks) :
       /\ tasks[i].kind \in {"epic", "meetings"}
       /\ At(tasks[i]).i \in LoopIndexes
       /\ \A e \in Steps(i) :
             IF e.done
             THEN /\ e.said # <<>>
                  /\ e.said[1].msg \in FinalReports(tasks[i])
                  /\ e.said[Len(e.said)] = Msg("main_menu")
                  /\ tasks[i].user \in DOMAIN e.conv
                  /\ e.conv[tasks[i].user] = [step |-> "awaiting_choice"]
             ELSE Before(At(tasks[i]), At(e.p))

\* as many workflows are in flight as the model lets run at once, so that
\* none can be started before one of them has ended
AllInFlight == Len(tasks) = MaxTasks

\* C24: every workflow started by a confirmation in the chat (epic creation,
\* meeting processing, meeting search) ends, whatever its port calls return
\* or raise: each of its steps takes it to a later await or ends it, having
\* sent its result or its error and then the main menu, and with the user's
\* step awaiting_choice; and of the workflows in flight one always ends
C24_WorkflowsTerminate ==
    /\ []StepsLeadToMenu
    /\ AllInFlight ~> ~AllInFlight

\* C24 happens: a workflow started from the chat is about to end after a
\* port call raised, while its user has gone on to another step
C24_Witness ==
    \E i \in 1..Len(tasks) :
       /\ tasks[i].user \in DOMAIN conversation_states
       /\ conversation_states[tasks[i].user].step = "epic_creation"
       /\ \E e \in Steps(i) :
             /\ e.done
             /\ e.said[1].msg \in {"error_creating_epic", "processing_failed",
                                   "search_failed"}
             /\ e.conv[tasks[i].user].step = "awaiting_choice"

(***************************************************************************)
(* Two messages of one user handled concurrently.                          *)
(***************************************************************************)
\* C25: nothing keeps a second message of a user from being handled while
\* the handler of the first is suspended at its send.  A handler suspended
\* at `await say(summary)` whose user's entry is still the dict it read
\* writes substep confirming_documents into the entry when it is resumed;
\* one whose user's entry has been replaced or deleted by another handler
\* meanwhile writes into the dict it read, and the store is left as the
\* other handler made it: the update is lost
C25_UnsynchronisedStore ==
    \A i \in 1..Len(tasks) :
       tasks[i].kind = "collect"
       => LET p == tasks[i]
          IN  /\ p.attached
                 => /\ p.user \in DOMAIN conversation_states
                    /\ conversation_states[p.user].step = "document_epic_creation"
                    /\ "documents" \in DOMAIN conversation_states[p.user]
              /\ \A e \in Steps(i) :
                    /\ e.done
                    /\ e.props = epic_proposals
                    /\ IF p.attached
                       THEN e.conv = SetEntry(conversation_states, p.user,
                                              With(conversation_states[p.user],
                                                   "substep", "confirming_documents"))
                       ELSE e.conv = conversation_states

\* C25 happens: a user in the document flow has sent documents, then "hi"
\* and "epic from prd" while the first handler was suspended at its send;
\* the handler is about to be resumed, and its substep confirming_documents
\* will not reach the user's new entry, which stays in awaiting_documents
\* without documents although the summary was sent
C25_Witness ==
    \E i \in 1..Len(tasks) :
       /\ tasks[i].kind = "collect"
       /\ ~tasks[i].attached
       /\ tasks[i].user \in DOMAIN conversation_states
       /\ conversation_states[tasks[i].user]
             = [step |-> "document_epic_creation", substep |-> "awaiting_documents"]
       /\ \E e \in Steps(i) :
             e.conv[tasks[i].user].substep = "awaiting_documents"

(***************************************************************************)
(* The menu and the two meeting flows.                                     *)
(***************************************************************************)
\* texts of more than two words that contain "3" or "search"
SearchChoices == {Text.opt3, Text.search_sprint, Text.search_notes}

InAwaitingChoice(u) ==
    /\ u \in DOMAIN conversation_states
    /\ conversation_states[u] = [step |-> "awaiting_choice"]

\* C26: a message of a user in step awaiting_choice that contains "3" or
\* "search" moves the user to meeting_search/awaiting_keyword and is
\* answered with the keyword prompt.
C26_MenuRoutingToSearch ==
    \A u \in Users, text \in SearchChoices :
       InAwaitingChoice(u)
       => LET r == Turn(u, text, {})
          IN  /\ route(conversation_states, u, text) = "awaiting_choice"
              /\ r.conv[u] = [step |-> "meeting_search", substep |-> "awaiting_keyword"]
              /\ r.said = <<Msg("keyword_prompt")>>

\* what the code does with "search meeting notes": "meeting" is tested
\* before "search", and the user is moved to meeting_processing/awaiting_space
\* and asked for a space key; "search sprint reviews" and "option 3 pls"
\* are taken as the claim says
C26_Divergence ==
    \E u \in Users :
       /\ InAwaitingChoice(u)
       /\ route(conversation_states, u, Text.search_notes) = "awaiting_choice"
       /\ Turn(u, Text.search_notes, {}).conv[u]
             = [step |-> "meeting_processing", substep |-> "awaiting_space"]
       /\ Turn(u, Text.search_notes, {}).said = <<Msg("space_prompt")>>
       /\ \A text \in {Text.opt3, Text.search_sprint} :
             Turn(u, text, {}).conv[u]
                = [step |-> "meeting_search", substep |-> "awaiting_keyword"]

\* the longest text offered as a space key
MaxKeyLen == 11

\* n lower-case letters
Letters(n) == [i \in 1..n |-> Lower26[i]]

\* texts offered as space keys: runs of letters of every length up to
\* MaxKeyLen, bare and with blanks around them, and three words
SpaceKeyTexts ==
    {Letters(n) : n \in 0..MaxKeyLen}
        \cup {<<" ", " ">> \o Letters(n) \o <<" ">> : n \in 0..MaxKeyLen}
        \cup {<<"a", " ", "b", " ", "c">>}

InAwaitingSpace(u) ==
    /\ u \in DOMAIN conversation_states
    /\ conversation_states[u] = [step |-> "meeting_processing", substep |-> "awaiting_space"]

\* C27: the meeting-processing step handler, given a text in substep
\* awaiting_space, stores the trimmed, upper-cased text as space_key and
\* moves to meeting_processing/confirming exactly when the trimmed text has
\* 2 to 10 characters, and otherwise leaves the state as it is and answers
\* that the key is invalid; a following "confirm" returns the action
\* process_meetings with the stored key, resets the user to awaiting_choice,
\* and the processing workflow is started with that key
C27_SpaceKeyBounds ==
    \A u \in Users, text \in SpaceKeyTexts :
       InAwaitingSpace(u)
       => LET c        == Ctx(conversation_states, {})
              r        == handle_meeting_processing_flow(c, u, text)
              n        == Len(Strip(text))
              accepted == r.conv[u] = [step      |-> "meeting_processing",
                                       substep   |-> "confirming",
                                       space_key |-> ToUpper(Strip(text))]
              confirm  == handle_meeting_processing_flow(Ctx(r.conv, {}), u,
                                                         Text.confirm)
              started  == enhanced_handle_meeting_processing(Ctx(r.conv, {}), u,
                                                             Text.confirm)
          IN  /\ accepted <=> (2 <= n /\ n <= 10)
              /\ accepted
                 => /\ r.said = <<[msg |-> "space_confirmation",
                                   space_key |-> ToUpper(Strip(text))]>>
                    /\ r.ret = <<>>
                    /\ confirm.ret = <<[action |-> "process_meetings",
                                        space_key |-> <<ToUpper(Strip(text))>>]>>
                    /\ confirm.conv[u] = [step |-> "awaiting_choice"]
                    /\ started.conv[u] = [step |-> "awaiting_choice"]
                    /\ started.spawn = <<MeetingsTask(u, <<ToUpper(Strip(text))>>)>>
              /\ ~accepted
                 => /\ r.conv = conversation_states
                    /\ r.said = <<Msg("invalid_space_key")>>
                    /\ r.ret = <<>>

\* C27 happens: a user is in awaiting_space, where a padded lower-case key
\* of ten letters is accepted and one of eleven letters is not
C27_Witness ==
    \E u \in Users :
       /\ InAwaitingSpace(u)
       /\ handle_meeting_processing_flow(
              Ctx(conversation_states, {}), u,
              <<" ", " ">> \o Letters(10) \o <<" ">>).conv[u].space_key
             = ToUpper(Letters(10))
       /\ handle_meeting_processing_flow(
              Ctx(conversation_states, {}), u, Letters(11)).said
             = <<Msg("invalid_space_key")>>

InAwaitingKeyword(u) ==
    /\ u \in DOMAIN conversation_states
    /\ conversation_states[u] = [step |-> "meeting_search", substep |-> "awaiting_keyword"]

\* the message "ok confirm it" after text, both from u
Confirmed(u, text) == Then(Turn(u, text, {}).conv, u, Text.confirm3)

\* C28: when a user in meeting_search/awaiting_keyword sends
\* "sprint space=PROJ days=14" and then confirms, the search workflow is
\* started with keyword "sprint", space PROJ and 14 days.
C28_SearchOptions ==
    \A u \in Users :
       InAwaitingKeyword(u)
       => Confirmed(u, Text.sprint_opts).spawn
             = <<SearchTask(u, <<<<"s", "p", "r", "i", "n", "t">>>>,
                            <<<<"P", "R", "O", "J">>>>, 14)>>

\* what the code does: the whole text is the keyword, and the search is
\* started without a space and with 30 days
C28_Divergence ==
    \E u \in Users :
       /\ InAwaitingKeyword(u)
       /\ Turn(u, Text.sprint_opts, {}).conv[u]
             = [step |-> "meeting_search", substep |-> "confirming",
                keyword |-> Text.sprint_opts]
       /\ Confirmed(u, Text.sprint_opts).spawn
             = <<SearchTask(u, <<Text.sprint_opts>>, <<>>, 30)>>

(***************************************************************************)
(* utils.text_parser: normalize_priority and validate_epic_data.  A string *)
(* is a sequence of characters; None and the empty string are both <<>>,   *)
(* the two values for which `not priority` holds.                          *)
(***************************************************************************)
priority_mapping ==
    {<<<<"l", "o", "w">>, "Low">>,
     <<<<"l">>, "Low">>,
     <<<<"m", "i", "n", "o", "r">>, "Low">>,
     <<<<"m", "e", "d", "i", "u", "m">>, "Medium">>,
     <<<<"m", "e", "d">>, "Medium">>,
     <<<<"m">>, "Medium">>,
     <<<<"n", "o", "r", "m", "a", "l">>, "Medium">>,
     <<<<"h", "i", "g", "h">>, "High">>,
     <<<<"h">>, "High">>,
     <<<<"i", "m", "p", "o", "r", "t", "a", "n", "t">>, "High">>,
     <<<<"c", "r", "i", "t", "i", "c", "a", "l">>, "Critical">>,
     <<<<"c", "r", "i", "t">>, "Critical">>,
     <<<<"u", "r", "g", "e", "n", "t">>, "Critical">>,
     <<<<"b", "l", "o", "c", "k", "e", "r">>, "Critical">>}

\* mapping.get(key, default)
mapping_get(mapping, key, default) ==
    IF \E e \in mapping : e[1] = key
    THEN (CHOOSE e \in mapping : e[1] = key)[2]
    ELSE default

\* normalize_priority: <<>> is None, <<v>> the value v
normalize_priority(priority) ==
    IF priority = <<>> THEN <<>>
    ELSE <<mapping_get(priority_mapping, ToLower(Strip(priority)), "Medium")>>

TitleMinLen == 5
TitleMaxLen == 200
DescriptionMinLen == 20
FeaturesMax == 10
LabelsMax == 5

\* epic_data.get(key): <<>> when the key is absent
dict_get(epic_data, key) ==
    IF key \in DOMAIN epic_data THEN epic_data[key] ELSE <<>>

\* the title check with both limits exclusive
validate_title_exclusive(epic_data, errors) ==
    IF dict_get(epic_data, "title") = <<>>
        THEN With(errors, "title", "Title is required")
    ELSE IF Len(epic_data.title) <= TitleMinLen
        THEN With(errors, "title", "Title must be at least 5 characters long")
    ELSE IF Len(epic_data.title) >= TitleMaxLen
        THEN With(errors, "title", "Title must be less than 200 characters")
    ELSE errors

validate_title(epic_data, errors) ==
    IF dict_get(epic_data, "title") = <<>>
        THEN With(errors, "title", "Title is required")
    ELSE IF Len(epic_data.title) < TitleMinLen
        THEN With(errors, "title", "Title must be at least 5 characters long")
    ELSE IF Len(epic_data.title) > TitleMaxLen
        THEN With(errors, "title", "Title must be less than 200 characters")
    ELSE errors

validate_description(epic_data, errors) ==
    IF dict_get(epic_data, "description") = <<>>
        THEN With(errors, "description", "Description is required")
    ELSE IF Len(epic_data.description) < DescriptionMinLen
        THEN With(errors, "description",
                  "Description must be at least 20 characters long")
    ELSE errors

validate_features(epic_data, errors) ==
    IF Len(dict_get(epic_data, "preferred_features")) > FeaturesMax
        THEN With(errors, "features", "Maximum 10 features allowed")
    ELSE errors

validate_labels(epic_data, errors) ==
    IF Len(dict_get(epic_data, "labels")) > LabelsMax
        THEN With(errors, "labels", "Maximum 5 labels allowed")
    ELSE errors

validate_epic_data(epic_data) ==
    validate_labels(epic_data,
        validate_features(epic_data,
            validate_description(epic_data,
                validate_title(epic_data, <<>>))))

(***************************************************************************)
(* Calls of the two functions.  A call is a record holding its argument    *)
(* and, once it has returned, its result.                                  *)
(***************************************************************************)
\* how far from a limit the lengths offered go, and how many blanks are put
\* on either side of a priority
MaxMargin == 1
MaxPad == 1

Blanks(n) == [i \in 1..n |-> " "]

\* the words offered as priorities: every alias, and five that are none
PriorityWords ==
    {e[1] : e \in priority_mapping}
        \cup {<<>>, <<"i", "n", "v", "a", "l", "i", "d">>,
              <<"h", "i", "g", "h", "e", "r">>, <<"h", "i", " ", "g", "h">>,
              <<"l", "o">>}

\* each word in lower and in upper case, with blanks around it
PriorityTexts ==
    {Blanks(i) \o w \o Blanks(j) :
        w \in PriorityWords \cup {ToUpper(v) : v \in PriorityWords},
        i \in 0..MaxPad, j \in 0..MaxPad}

Around(limit) == (limit - MaxMargin)..(limit + MaxMargin)

\* a string of n characters, a list of n strings
Filled(n) == [i \in 1..n |-> "x"]
Items(n) == [i \in 1..n |-> <<"x">>]

Optional(S) == {<<>>} \cup {<<v>> : v \in S}

WithOptional(d, key, opt) == IF opt = <<>> THEN d ELSE With(d, key, opt[1])

\* the dicts offered: each key absent or present, lengths at and around
\* the limits
EpicDatas ==
    {WithOptional(WithOptional(WithOptional(WithOptional(<<>>,
         "title", t), "description", d), "preferred_features", f), "labels", l) :
        t \in Optional({Filled(n) : n \in {0} \cup Around(TitleMinLen)
                                          \cup Around(TitleMaxLen)}),
        d \in Optional({Filled(n) : n \in {0} \cup Around(DescriptionMinLen)}),
        f \in Optional({Items(n) : n \in {0} \cup Around(FeaturesMax)}),
        l \in Optional({Items(n) : n \in {0} \cup Around(LabelsMax)})}

UtilsCalls ==
    {[kind |-> "normalize_priority", pc |-> "call", priority |-> s] :
        s \in PriorityTexts}
        \cup {[kind |-> "validate_epic_data", pc |-> "call", epic_data |-> d] :
                 d \in EpicDatas}

InitUtils ==
    /\ conversation_states = <<>>
    /\ epic_proposals = <<>>
    /\ \E call \in UtilsCalls : tasks = <<call>>

normalize_priority_returns ==
    /\ tasks # <<>>
    /\ tasks[1].kind = "normalize_priority"
    /\ tasks[1].pc = "call"
    /\ tasks' = <<[kind     |-> "normalize_priority",
                   pc       |-> "return",
                   priority |-> tasks[1].priority,
                   ret      |-> normalize_priority(tasks[1].priority)]>>
    /\ UNCHANGED <<conversation_states, epic_proposals>>

validate_epic_data_returns ==
    /\ tasks # <<>>
    /\ tasks[1].kind = "validate_epic_data"
    /\ tasks[1].pc = "call"
    /\ tasks' = <<[kind      |-> "validate_epic_data",
                   pc        |-> "return",
                   epic_data |-> tasks[1].epic_data,
                   errors    |-> validate_epic_data(tasks[1].epic_data)]>>
    /\ UNCHANGED <<conversation_states, epic_proposals>>

NextUtils ==
    \/ normalize_priority_returns
    \/ validate_epic_data_returns

SpecUtils == InitUtils /\ [][NextUtils]_vars

Returned(kind) ==
    /\ tasks # <<>>
    /\ tasks[1].kind = kind
    /\ tasks[1].pc = "return"

InTable(s) == \E e \in priority_mapping : e[1] = ToLower(Strip(s))

Canonical(s) == (CHOOSE e \in priority_mapping : e[1] = ToLower(Strip(s)))[2]

\* C29: normalize_priority returns, for every string, a canonical value:
\* the mapped one when the trimmed, lower-cased string is in the alias
\* table, and "Medium" for every other string, the empty string included
C29_PriorityTotality ==
    Returned("normalize_priority")
    => /\ Len(tasks[1].ret) = 1
       /\ tasks[1].ret[1] \in {"Low", "Medium", "High", "Critical"}
       /\ InTable(tasks[1].priority)
          => tasks[1].ret[1] = Canonical(tasks[1].priority)
       /\ ~InTable(tasks[1].priority) => tasks[1].ret[1] = "Medium"

\* what the code does: for the empty string the call returns None
C29_Divergence ==
    /\ Returned("normalize_priority")
    /\ tasks[1].priority = <<>>
    /\ tasks[1].ret = <<>>

\* C30: validate_epic_data returns a map that has title exactly when the
\* title is missing or has fewer than 5 or more than 200 characters,
\* description exactly when it is missing or has fewer than 20, features
\* exactly when there are more than 10 features and labels exactly when
\* there are more than 5 labels; it is empty exactly when none of these
\* holds
C30_ValidationBoundaries ==
    Returned("validate_epic_data")
    => LET epic_data == tasks[1].epic_data
           errors    == tasks[1].errors
           has(key)  == key \in DOMAIN epic_data
           bad_title == \/ ~has("title")
                        \/ Len(epic_data.title) < 5
                        \/ Len(epic_data.title) > 200
           bad_description == \/ ~has("description")
                              \/ Len(epic_data.description) < 20
           bad_features == has("preferred_features")
                           /\ Len(epic_data.preferred_features) > 10
           bad_labels == has("labels") /\ Len(epic_data.labels) > 5
       IN  /\ DOMAIN errors \subseteq {"title", "description", "features", "labels"}
           /\ "title" \in DOMAIN errors <=> bad_title
           /\ "description" \in DOMAIN errors <=> bad_description
           /\ "features" \in DOMAIN errors <=> bad_features
           /\ "labels" \in DOMAIN errors <=> bad_labels
           /\ errors = <<>>
              <=> ~(bad_title \/ bad_description \/ bad_features \/ bad_labels)

\* C30 happens: a dict with a title of 200 characters, a description of
\* 20, 10 features and 5 labels has been validated with no error
C30_Witness ==
    /\ Returned("validate_epic_data")
    /\ DOMAIN tasks[1].epic_data
          = {"title", "description", "preferred_features", "labels"}
    /\ Len(tasks[1].epic_data.title) = 200
    /\ Len(tasks[1].epic_data.description) = 20
    /\ Len(tasks[1].epic_data.preferred_features) = 10
    /\ Len(tasks[1].epic_data.labels) = 5
    /\ tasks[1].errors = <<>>

(***************************************************************************)
(* The slash commands /process-meetings and /search-meetings.              *)
(***************************************************************************)
\* s.startswith(p)
StartsWith(s, p) == Len(p) <= Len(s) /\ SubSeq(s, 1, Len(p)) = p

DigitValue(ch) == IF ch = "0" THEN 0 ELSE CHOOSE i \in 1..9 : Digits[i] = ch

\* the number written by a run of decimal digits
RECURSIVE Decimal(_)
Decimal(s) ==
    IF s = <<>> THEN 0
    ELSE 10 * Decimal(SubSeq(s, 1, Len(s) - 1)) + DigitValue(s[Len(s)])

AllDigits(s) == s # <<>> /\ \A i \in 1..Len(s) : s[i] \in DigitSet

\* int(s) for a token of letters, digits, signs and "=": <<n>> is the value
\* n, <<>> is ValueError
ParseInt(s) ==
    IF AllDigits(s) THEN <<Decimal(s)>>
    ELSE IF s # <<>> /\ s[1] = "+" /\ AllDigits(Tail(s)) THEN <<Decimal(Tail(s))>>
    ELSE IF s # <<>> /\ s[1] = "-" /\ AllDigits(Tail(s)) THEN <<0 - Decimal(Tail(s))>>
    ELSE <<>>

FlagSpace == <<"s", "p", "a", "c", "e", "=">>
FlagDays == <<"d", "a", "y", "s", "=">>

\* arg.split('=')[1] of an argument that holds a "="
FlagValue(arg) == SplitOn(arg, "=")[2]

\* self._process_meetings_command(confluence_space, channel, user_id)
ProcessCommand(u, confluence_space) ==
    [kind |-> "command", user |-> u, pc |-> "start", search |-> FALSE,
     confluence_space |-> confluence_space]

\* self._search_meetings_command(keyword, confluence_space, days_back, channel, user_id)
SearchCommand(u, keyword, confluence_space, days_back) ==
    [kind |-> "command", user |-> u, pc |-> "start", search |-> TRUE,
     keyword |-> keyword, confluence_space |-> confluence_space,
     days_back |-> days_back]

\* the except clause of a slash-command handler
command_except(c) ==
    IF c.exc THEN Say([c EXCEPT !.exc = FALSE], Msg("sorry")) ELSE c

\* the space of handle_process_meetings: <<>> is None
first_arg_space(args) ==
    IF args # <<>> /\ StartsWith(args[1], FlagSpace)
    THEN <<FlagValue(args[1])>> ELSE <<>>

\* the rest of handle_process_meetings once the space is known; with no
\* space, or an empty one, the handler lists the spaces and returns
process_meetings_with(c, u, confluence_space) ==
    IF confluence_space = <<>> \/ confluence_space[1] = <<>>
    THEN Say(c, Msg("specify_space"))
    ELSE Spawn(Say(c, [msg |-> "processing_meetings",
                       confluence_space |-> confluence_space[1]]),
               ProcessCommand(u, confluence_space[1]))

\* handle_process_meetings
handle_process_meetings(c, u, text) ==
    command_except(
        process_meetings_with(c, u, first_arg_space(Tokens(Strip(text)))))

\* the loop of handle_search_meetings over args[1:], from the values so far
RECURSIVE search_flags(_, _, _)
search_flags(args, confluence_space, days_back) ==
    IF args = <<>>
    THEN [confluence_space |-> confluence_space, days_back |-> days_back]
    ELSE IF StartsWith(Head(args), FlagSpace)
        THEN search_flags(Tail(args), <<FlagValue(Head(args))>>, days_back)
    ELSE IF StartsWith(Head(args), FlagDays)
        THEN search_flags(Tail(args), confluence_space,
                          IF ParseInt(FlagValue(Head(args))) = <<>>
                          THEN days_back
                          ELSE ParseInt(FlagValue(Head(args)))[1])
    ELSE search_flags(Tail(args), confluence_space, days_back)

search_meetings_with(c, u, keyword, flags) ==
    Spawn(Say(c, [msg |-> "searching_meetings", keyword |-> keyword,
                  days_back |-> flags.days_back]),
          SearchCommand(u, keyword, flags.confluence_space, flags.days_back))

\* handle_search_meetings
handle_search_meetings(c, u, text) ==
    command_except(
        IF Strip(text) = <<>> THEN Say(c, Msg("provide_keyword"))
        ELSE search_meetings_with(c, u, Head(Tokens(Strip(text))),
                 search_flags(Tail(Tokens(Strip(text))), <<>>, DefaultDaysBack)))

\* _process_meetings_command / _search_meetings_command: the workflow awaited
\* writes to neither store; the coroutine reports its outcome and returns
meetings_command(p, conv, props) ==
    {Eff(p, TRUE, <<Msg(m)>>, conv, props)
       : m \in {"command_complete", "command_failed", "command_error"}}

\* the arguments users write after a slash command, of at most MaxArgs tokens
MaxArgs == 3

ArgTokens ==
    {<<"s", "p", "r", "i", "n", "t">>, <<"r", "e", "t", "r", "o">>,
     FlagSpace \o <<"P", "R", "O", "J">>, FlagSpace,
     FlagDays \o <<"1", "4">>, FlagDays \o <<"a", "b", "c">>,
     FlagDays \o <<"7">>}

RECURSIVE JoinTokens(_)
JoinTokens(ts) ==
    IF ts = <<>> THEN <<>>
    ELSE IF Len(ts) = 1 THEN ts[1]
    ELSE ts[1] \o <<" ">> \o JoinTokens(Tail(ts))

ArgTexts ==
    {JoinTokens(ts) : ts \in UNION {[1..n -> ArgTokens] : n \in 0..MaxArgs}}

slash_process_meetings ==
    /\ Len(tasks) < MaxTasks
    /\ \E u \in Users, text \in ArgTexts :
       \E r \in {handle_process_meetings(Ctx(conversation_states, {}), u, text)} :
          /\ conversation_states' = r.conv
          /\ tasks' = tasks \o r.spawn
          /\ UNCHANGED epic_proposals

slash_search_meetings ==
    /\ Len(tasks) < MaxTasks
    /\ \E u \in Users, text \in ArgTexts :
       \E r \in {handle_search_meetings(Ctx(conversation_states, {}), u, text)} :
          /\ conversation_states' = r.conv
          /\ tasks' = tasks \o r.spawn
          /\ UNCHANGED epic_proposals

command_step ==
    /\ tasks # <<>>
    /\ \E i \in 1..Len(tasks) :
          /\ tasks[i].kind = "command"
          /\ \E e \in meetings_command(tasks[i], conversation_states, epic_proposals) :
                /\ tasks' = SubSeq(tasks, 1, i - 1) \o SubSeq(tasks, i + 1, Len(tasks))
                /\ conversation_states' = e.conv
                /\ epic_proposals' = e.props

NextSlash ==
    \/ slash_process_meetings
    \/ slash_search_meetings
    \/ command_step

SpecSlash == Init /\ [][NextSlash]_vars

IsFlag(arg) == StartsWith(arg, FlagSpace) \/ StartsWith(arg, FlagDays)

\* the values of the flag tokens of args, <<>> where there is none
SpacesGiven(args) ==
    IF \E i \in 1..Len(args) : StartsWith(args[i], FlagSpace)
    THEN {<<FlagValue(args[i])>> : i \in {j \in 1..Len(args) :
                                            StartsWith(args[j], FlagSpace)}}
    ELSE {<<>>}

DaysGiven(args) ==
    LET parsed == {ParseInt(FlagValue(args[i])) :
                     i \in {j \in 1..Len(args) : StartsWith(args[j], FlagDays)}}
                  \ {<<>>}
    IN  IF parsed = {} THEN {30} ELSE {d[1] : d \in parsed}

\* C31: /search-meetings with a keyword among its arguments starts the search
\* with the first token that is no space= or days= flag as keyword, with the
\* space of a space= token wherever it stands, and with the days of a
\* parseable days= token wherever it stands and 30 otherwise;
\* /process-meetings with a non-empty space= token anywhere among its
\* arguments starts the processing for that space
C31_MeetingArguments ==
    Len(tasks) < MaxTasks
    => \A u \in Users, text \in ArgTexts :
          LET args     == Tokens(text)
              keywords == SelectSeq(args, LAMBDA a : ~IsFlag(a))
              search   == handle_search_meetings(Ctx(conversation_states, {}), u, text)
              process  == handle_process_meetings(Ctx(conversation_states, {}), u, text)
          IN  /\ keywords # <<>>
                 => /\ Len(search.spawn) = 1
                    /\ search.spawn[1].keyword = Head(keywords)
                    /\ search.spawn[1].confluence_space \in SpacesGiven(args)
                    /\ search.spawn[1].days_back \in DaysGiven(args)
              /\ (SpacesGiven(args) \ {<<>>, <<<<>>>>}) # {}
                 => /\ Len(process.spawn) = 1
                    /\ <<process.spawn[1].confluence_space>> \in SpacesGiven(args)

\* what the code does: "/search-meetings space=PROJ sprint" has started a
\* search for the keyword "space=PROJ" in no space, and in this state
\* "/process-meetings sprint space=PROJ" starts nothing
C31_Divergence ==
    /\ tasks # <<>>
    /\ tasks[1] = SearchCommand("u1", FlagSpace \o <<"P", "R", "O", "J">>, <<>>, 30)
    /\ handle_process_meetings(
           Ctx(conversation_states, {}), "u1",
           <<"s", "p", "r", "i", "n", "t", " ">> \o FlagSpace \o <<"P", "R", "O", "J">>)
          = Say(Ctx(conversation_states, {}), Msg("specify_space"))

\* the most lines an epic request offered has
MaxLines == 2

\* lines offered in epic requests: title and description lines under either
\* key, in either case, with blanks and with an empty value, and lines that
\* only look like them
EpicLines ==
    {<<"T", "i", "t", "l", "e", ":", " ", "A">>,
     <<" ", "N", "A", "M", "E", " ", ":">>,
     <<"D", "e", "s", "c", "r", "i", "p", "t", "i", "o", "n", ":", " ", "d", ":", "e">>,
     <<"d", "e", "s", "c", ":">>,
     <<"t", "i", "t", "l", "e", " ", "A">>,
     <<"m", "y", " ", "t", "i", "t", "l", "e", ":", " ", "A">>,
     <<"x", ":", " ", "d", "e", "s", "c", "r", "i", "p", "t", "i", "o", "n", ":", " ", "d">>,
     <<"P", "r", "i", "o", ":", " ", "H", "i", "g", "h">>}

RECURSIVE JoinLines(_)
JoinLines(ls) ==
    IF ls = <<>> THEN <<>>
    ELSE IF Len(ls) = 1 THEN ls[1]
    ELSE ls[1] \o <<"\n">> \o JoinLines(Tail(ls))

EpicRequestTexts ==
    {JoinLines(ls) : ls \in UNION {[1..n -> EpicLines] : n \in 0..MaxLines}}

InAwaitingDetails(u) ==
    /\ u \in DOMAIN conversation_states
    /\ conversation_states[u].step = "epic_creation"
    /\ GetStr(conversation_states[u], "substep") = "awaiting_details"

\* the text before the first colon of a line, trimmed and in lower case
KeyOf(line) ==
    ToLower(Strip(SubSeq(line, 1, SetMin({i \in 1..Len(line) : line[i] = ":"}) - 1)))

\* text has a line that holds a colon and whose key is one of keys
HasLineFor(text, keys) ==
    \E i \in 1..Len(SplitOn(text, "\n")) :
       LET line == SplitOn(text, "\n")[i]
       IN  Contains(line, <<":">>) /\ KeyOf(line) \in keys

\* C32: _parse_epic_request returns None exactly when the text has no line
\* with a title key or no line with a description key; in
\* epic_creation/awaiting_details a text that fails to parse leaves the
\* user's entry as it is and is answered with the format error, and a text
\* that parses is stored as the intent with the substep set to confirming
C32_EpicParseFailure ==
    \A u \in Users, text \in EpicRequestTexts :
       InAwaitingDetails(u)
       => LET parsed == parse_epic_request(text)
              state  == conversation_states[u]
              r      == handle_epic_creation_flow(Ctx(conversation_states, {}), u, text)
          IN  /\ parsed = <<>>
                 <=> ~(/\ HasLineFor(text, {Word.title, Word.name})
                       /\ HasLineFor(text, {Word.description, Word.desc}))
              /\ parsed = <<>>
                 => /\ r.conv = conversation_states
                    /\ r.said = <<Msg("invalid_epic_format")>>
                    /\ r.spawn = <<>>
              /\ parsed # <<>>
                 => /\ {"title", "description"} \subseteq DOMAIN parsed[1]
                    /\ r.conv[u] = [step |-> "epic_creation", substep |-> "confirming",
                                    epic_data |-> parsed[1]]
                    /\ \A v \in DOMAIN conversation_states \ {u} :
                          r.conv[v] = conversation_states[v]
                    /\ r.said = <<EpicSummary(parsed[1])>>

\* C32 happens: a user is in awaiting_details, where a text with a title
\* line alone fails to parse and one with empty title and description
\* values parses
C32_Witness ==
    \E u \in Users :
       /\ InAwaitingDetails(u)
       /\ parse_epic_request(<<"T", "i", "t", "l", "e", ":", " ", "A">>) = <<>>
       /\ handle_epic_creation_flow(
              Ctx(conversation_states, {}), u,
              <<" ", "N", "A", "M", "E", " ", ":", "\n", "d", "e", "s", "c", ":">>).conv[u]
             = [step |-> "epic_creation", substep |-> "confirming",
                epic_data |-> [title |-> <<>>, description |-> <<>>]]

\* the entry of u in conv, <<>> when there is none
EntryOf(conv, u) == IF u \in DOMAIN conv THEN <<conv[u]>> ELSE <<>>

\* what the approval response the approval handler awaits does for the text
\* before its first port call: the messages it sends and the entry it leaves
ApprovalOutcome(conv, props, u, text) ==
    {[said |-> e.said, state |-> EntryOf(e.conv, u)] :
        e \in step_of(ApprovalTask(u, text), conv, props)}

DeterminismTexts == {Text.xyz, Text.edit3, Text.hi, Text.done3}

SameEntryAfter(u) ==
    /\ EntryOf(conversation_states, u) # <<>>
    /\ EntryOf(conversation_states, u) = EntryOf(conversation_states', u)

\* C33: whenever the entry (step, substep, payload) of a user is the same
\* before and after a step of the program, every text handled for that user
\* has the same outcome before and after: the same started workflow, the
\* same rendered messages, the same next entry, also in the approval
\* response that the approval handler awaits
C33_Determinism ==
    [][\A u \in Users, text \in DeterminismTexts :
          SameEntryAfter(u)
          => /\ Turn(u, text, {}).spawn = (Turn(u, text, {}).spawn)'
             /\ Turn(u, text, {}).said = (Turn(u, text, {}).said)'
             /\ EntryOf(Turn(u, text, {}).conv, u) = EntryOf(Turn(u, text, {}).conv, u)'
             /\ ApprovalOutcome(conversation_states, epic_proposals, u, text)
                   = ApprovalOutcome(conversation_states', epic_proposals', u, text)]_vars

\* what the code does: a user is in awaiting_epic_approval with proposals in
\* the entry and none pending in the store (they were approved); "x y z" is
\* answered with "no pending proposals", and, with the entry's proposals
\* pending, the same entry and text are answered with "invalid response"
C33_Divergence ==
    \E u \in Users :
       /\ u \in DOMAIN conversation_states
       /\ conversation_states[u].step = "awaiting_epic_approval"
       /\ ~HasProposals(epic_proposals, u)
       /\ Turn(u, Text.xyz, {}).spawn = <<ApprovalTask(u, Text.xyz)>>
       /\ ApprovalOutcome(conversation_states, epic_proposals, u, Text.xyz)
             = {[said |-> <<Msg("no_pending_proposals")>>,
                 state |-> <<conversation_states[u]>>]}
       /\ {e.said : e \in step_of(ApprovalTask(u, Text.xyz), conversation_states,
                                  SetProposals(epic_proposals, u,
                                               conversation_states[u].proposals))}
             = {<<Msg("invalid_response")>>}

(***************************************************************************)
(* The confirming branch of a flow handler as a coroutine.  The handler    *)
(* reads the user's entry into its local variable state, chooses the       *)
(* confirm branch, and gives up control at the await of the progress       *)
(* message; afterwards it binds the user's entry to {step: awaiting_choice}*)
(* and returns the payload of state, and the handler ProjectManager        *)
(* installed starts the workflow.  While attached, state is the dict       *)
(* stored for the user, which other handlers write into; once another      *)
(* handler has bound the entry to a new dict or deleted it, state is the   *)
(* dict as it was then; dispatched records that this was done by a handler *)
(* that held the same dict and started the workflow for its payload.       *)
(***************************************************************************)
\* handlers and workflows in flight at once
MaxInFlight == 2

ConfirmTask(u, text, state) ==
    [kind |-> "confirm", user |-> u, pc |-> "say_progress", text |-> text,
     attached |-> TRUE, state |-> state, dispatched |-> FALSE]

ConfirmingSteps == {"epic_creation", "meeting_processing", "meeting_search"}

\* the message text of u is taken by the confirm branch of a flow handler
reaches_progress(conv, u, text) ==
    /\ route(conv, u, text) \in ConfirmingSteps
    /\ GetStr(conv[u], "substep") = "confirming"
    /\ Contains(ToLower(text), Word.confirm)

\* the handler that made r of the message text wrote into the dict stored
\* for u: a flow handler that did not leave its flow
writes_in_place(conv, u, text, r) ==
    /\ u \in DOMAIN conv
    /\ u \in DOMAIN r.conv
    /\ route(conv, u, text) \in ConfirmingSteps
    /\ r.conv[u].step = conv[u].step

\* the suspended handlers of u once the entry of u, state until now, has
\* been bound to another dict or deleted
rebound(ts, u, state, dispatched) ==
    [i \in 1..Len(ts) |->
        IF ts[i].kind = "confirm" /\ ts[i].user = u /\ ts[i].attached
        THEN [ts[i] EXCEPT !.attached = FALSE, !.state = state,
                           !.dispatched = dispatched]
        ELSE ts[i]]

\* the dict the local variable state of p refers to
state_of(p, conv) == IF p.attached THEN conv[p.user] ELSE p.state

\* the rest of the handler p and of the handler ProjectManager installed
\* around it, from the return of the progress message: the confirm branch
\* was chosen when the handler started, whatever the substep is by now
confirm_resumed(p, conv) ==
    Then(SetEntry(conv, p.user, With(state_of(p, conv), "substep", "confirming")),
         p.user, p.text)

ConfirmFlowTexts ==
    {Text.opt1, Text.epic, Text.opt2, Text.opt3, Text.xyz, Text.confirm3,
     Text.edit3, Text.done3}

\* a message whose handler takes the confirm branch and is suspended at the
\* await of the progress message
confirm_suspended ==
    /\ Len(tasks) < MaxInFlight
    /\ \E text \in ConfirmFlowTexts :
          /\ "u1" \in DOMAIN conversation_states
          /\ reaches_progress(conversation_states, "u1", Strip(text))
          /\ tasks' = Append(tasks, ConfirmTask("u1", Strip(text),
                                                conversation_states["u1"]))
          /\ UNCHANGED <<conversation_states, epic_proposals>>

\* any other message, handled while the suspended handlers wait
other_message ==
    /\ Len(tasks) <= MaxInFlight
    /\ \E text \in ConfirmFlowTexts :
       \E r \in {Turn("u1", text, {})} :
          /\ "u1" \in DOMAIN conversation_states
                => ~reaches_progress(conversation_states, "u1", Strip(text))
          /\ r.spawn = <<>>
          /\ conversation_states' = r.conv
          /\ tasks' = IF \/ writes_in_place(conversation_states, "u1", Strip(text), r)
                         \/ EntryOf(r.conv, "u1") = EntryOf(conversation_states, "u1")
                      THEN tasks
                      ELSE rebound(tasks, "u1", conversation_states["u1"], FALSE)
          /\ UNCHANGED epic_proposals

\* a suspended handler is resumed: its progress message has been sent; the
\* workflow it starts is kept in tasks
confirm_step ==
    /\ tasks # <<>>
    /\ \E i \in 1..Len(tasks) :
          /\ tasks[i].kind = "confirm"
          /\ \E r \in {confirm_resumed(tasks[i], conversation_states)} :
                /\ conversation_states' = r.conv
                /\ tasks' = rebound(SubSeq(tasks, 1, i - 1)
                                       \o SubSeq(tasks, i + 1, Len(tasks)),
                                    tasks[i].user,
                                    state_of(tasks[i], conversation_states),
                                    tasks[i].attached /\ r.spawn # <<>>)
                               \o r.spawn
                /\ UNCHANGED epic_proposals

NextConfirm ==
    \/ confirm_suspended
    \/ other_message
    \/ confirm_step

SpecConfirm == Init /\ [][NextConfirm]_vars

\* the workflows of u among ts
WorkflowsOf(ts, u) ==
    SelectSeq(ts, LAMBDA p : p.kind \in {"epic", "meetings"} /\ p.user = u)

\* the suspended handlers whose intent another handler has dispatched
Dispatched(ts) ==
    SelectSeq(ts, LAMBDA p : p.kind = "confirm" /\ p.dispatched)

\* C34: no step that starts a workflow for a user is the resumption of a
\* handler whose stored intent has been dispatched already: an intent
\* stored once is dispatched at most once, also when two confirm messages
\* of the user are in flight at the await of the progress message
C34_SingleDispatch ==
    [][\A u \in Users :
          Len(WorkflowsOf(tasks', u)) > Len(WorkflowsOf(tasks, u))
          => Len(Dispatched(tasks')) >= Len(Dispatched(tasks))]_vars

\* what the code does: the workflow has been started for a stored intent,
\* the user is back in awaiting_choice, and a second confirm handler that
\* was suspended on the same stored intent starts the same workflow again
\* when it is resumed
C34_Divergence ==
    /\ Len(tasks) = 2
    /\ tasks[1].kind = "confirm"
    /\ tasks[1].dispatched
    /\ tasks[2].kind \in {"epic", "meetings"}
    /\ conversation_states["u1"] = AwaitingChoice
    /\ confirm_resumed(tasks[1], conversation_states).spawn = <<tasks[2]>>

(***************************************************************************)
(* The workflows in the background of the chat: started by a confirmation  *)
(* or by the slash command /create-epic, they run while the user's         *)
(* messages are handled.                                                   *)
(***************************************************************************)
\* the rest of handle_create_epic once the text is parsed
create_epic_with(c, u, epic_data) ==
    IF epic_data = <<>>
    THEN Say(c, Msg("invalid_format_help"))
    ELSE Spawn(Say(c, [msg |-> "creating_epic", title |-> epic_data[1].title]),
               EpicTask(u, EpicRequest(epic_data[1])))

\* handle_create_epic
handle_create_epic(c, u, text) ==
    command_except(
        IF Strip(text) = <<>> THEN Say(c, Msg("epic_help"))
        ELSE create_epic_with(c, u, parse_epic_request(Strip(text))))

CreateEpicTexts == {<<>>, Text.xyz, Text.epic, Text.epicf}

slash_create_epic ==
    /\ Len(tasks) < MaxTasks
    /\ \E u \in Users, text \in CreateEpicTexts :
       \E r \in {handle_create_epic(Ctx(conversation_states, {}), u, text)} :
          /\ conversation_states' = r.conv
          /\ tasks' = tasks \o r.spawn
          /\ UNCHANGED epic_proposals

NextBackground ==
    \/ direct_message
    \/ slash_create_epic
    \/ epic_step
    \/ meetings_step

SpecBackground == Init /\ [][NextBackground]_vars

\* the coroutine p is one of the three workflows that end in the main menu
EndsInMenu(p) ==
    \/ p.kind = "epic"
    \/ p.kind = "meetings" /\ p.conversational

\* C35: whenever _process_epic_creation, started by a confirmation or by
\* /create-epic, or one of the two conversational meeting workflows makes its
\* last step, the user's entry becomes exactly {step: awaiting_choice},
\* whatever it held and also when there was none, and no other entry changes
C35_CompletionOverwrites ==
    \A i \in 1..Len(tasks) :
       EndsInMenu(tasks[i])
       => \A e \in Steps(i) :
             e.done => e.conv = SetEntry(conversation_states, tasks[i].user,
                                         AwaitingChoice)

\* C35 happens: an epic workflow is about to finish while its user has
\* entered the meeting flow and stored a space key there
C35_Witness ==
    \E i \in 1..Len(tasks) :
       /\ tasks[i].kind = "epic"
       /\ tasks[i].user \in DOMAIN conversation_states
       /\ conversation_states[tasks[i].user].step = "meeting_processing"
       /\ GetStr(conversation_states[tasks[i].user], "substep") = "confirming"
       /\ \E e \in Steps(i) :
             /\ e.done
             /\ e.p.result.success
             /\ e.conv[tasks[i].user] = AwaitingChoice

\* C36: in every reachable state, a user whose step is awaiting_epic_approval
\* or collecting_epic_feedback has pending proposals stored, and they are
\* the proposals held in the user's conversation entry
C36_ApprovalState ==
    \A u \in DOMAIN conversation_states :
       GetStr(conversation_states[u], "step")
          \in {"awaiting_epic_approval", "collecting_epic_feedback"}
       => /\ HasProposals(epic_proposals, u)
          /\ "proposals" \in DOMAIN conversation_states[u]
          /\ conversation_states[u].proposals = epic_proposals[1][u].proposals

\* what the code does: after "approve" has been processed and every epic of
\* the proposals created, the user is still in awaiting_epic_approval with
\* the proposals in the entry, and no proposals are pending
C36_Divergence ==
    /\ tasks = <<>>
    /\ "u1" \in DOMAIN conversation_states
    /\ conversation_states["u1"].step = "awaiting_epic_approval"
    /\ conversation_states["u1"].proposals # <<>>
    /\ epic_proposals = <<<<>>>>

\* the payload that the confirming substep of the entry state requires
ConfirmingPayload(state) ==
    LET step    == GetStr(state, "step")
        substep == GetStr(state, "substep")
    IN  /\ step = "epic_creation" /\ substep = "confirming"
           => /\ "epic_data" \in DOMAIN state
              /\ {"title", "description"} \subseteq DOMAIN state.epic_data
        /\ step = "meeting_processing" /\ substep = "confirming"
           => /\ "space_key" \in DOMAIN state
              /\ Len(state.space_key) >= 2
              /\ Len(state.space_key) <= 10
        /\ step = "meeting_search" /\ substep = "confirming"
           => /\ "keyword" \in DOMAIN state
              /\ state.keyword # <<>>
        /\ step = "document_epic_creation" /\ substep = "confirming_documents"
           => /\ "documents" \in DOMAIN state
              /\ total_docs(state.documents) >= 1

\* C37: in every reachable state, a user in epic_creation/confirming has a
\* stored intent with a title and a description, a user in
\* meeting_processing/confirming a stored space key of 2 to 10 characters, a
\* user in meeting_search/confirming a non-empty stored keyword, and a user
\* in document_epic_creation/confirming_documents at least one collected
\* document fragment
C37_ConfirmingPayload ==
    \A u \in DOMAIN conversation_states :
       ConfirmingPayload(conversation_states[u])

\* what the code does: every handler has returned, and the user is in
\* document_epic_creation/confirming_documents with no document collected
C37_Divergence ==
    /\ tasks = <<>>
    /\ "u1" \in DOMAIN conversation_states
    /\ GetStr(conversation_states["u1"], "step") = "document_epic_creation"
    /\ GetStr(conversation_states["u1"], "substep") = "confirming_documents"
    /\ total_docs(conversation_states["u1"].documents) = 0

\* the i-th coroutine is one of the two workflows that generate proposals
GeneratesProposals(i) == tasks[i].kind \in {"docs", "regenerate"}

\* C38: when process_epic_creation_from_documents or
\* regenerate_epics_with_feedback fails, it returns a failure result and
\* leaves the user's conversation entry and pending proposals as they were;
\* no step of the call before its successful end writes to either store
C38_FailedGenerationKeepsState ==
    \A i \in 1..Len(tasks) :
       GeneratesProposals(i)
       => \A e \in Steps(i) :
             /\ e.done => "result" \in DOMAIN e.p
             /\ ~e.done \/ ~e.p.result.success
                => /\ e.conv = conversation_states
                   /\ e.props = epic_proposals

\* the regeneration started for a user in collecting_epic_feedback is about
\* to fail, and so is the analysis started for a user with proposals
\* pending; neither user is in awaiting_choice afterwards
C38_Witness ==
    \E i \in 1..Len(tasks) :
       /\ GeneratesProposals(i)
       /\ tasks[i].user \in DOMAIN conversation_states
       /\ GetStr(conversation_states[tasks[i].user], "step")
             \in {"collecting_epic_feedback", "awaiting_epic_approval"}
       /\ HasProposals(epic_proposals, tasks[i].user)
       /\ \E e \in Steps(i) :
             /\ e.done
             /\ ~e.p.result.success
             /\ e.conv[tasks[i].user].step # "awaiting_choice"

\* the position in the input list of the feature that a story is for
FeaturePosition(features, story) ==
    CHOOSE k \in 1..Len(features) : features[k] = story.feature

\* the features whose generation returned a story, by the recorded calls
SucceededFeatures(p) ==
    {p.features[c.i] : c \in {p.log[j] : j \in 1..Len(p.log)} \cap [call : {"generate_user_story"}, i : 1..Len(p.features), ok : {TRUE}]}

\* C39: the list returned by generate_user_stories holds the stories of the
\* successful features in the order of the features in the input list, in
\* whatever order the concurrent generations complete
C39_StoryOrder ==
    \A i \in 1..Len(tasks) :
       tasks[i].kind = "stories" =>
          \A e \in Steps(i) :
             e.done =>
                LET stories == e.p.result
                IN  /\ {stories[j].feature : j \in 1..Len(stories)}
                          = SucceededFeatures(e.p)
                    /\ \A j, k \in 1..Len(stories) :
                          j < k => FeaturePosition(e.p.features, stories[j])
                                      < FeaturePosition(e.p.features, stories[k])

\* three generations complete in the order third, first, second, each with
\* a story, and the call returns the stories of the first, second and third
\* feature
C39_Witness ==
    \E i \in 1..Len(tasks) :
       \E e \in Steps(i) :
          /\ tasks[i].kind = "stories"
          /\ e.done
          /\ Len(e.p.features) = 3
          /\ e.p.log[1].i = 3 /\ e.p.log[2].i = 1 /\ e.p.log[3].i = 2
          /\ \A j \in 1..3 : e.p.log[j].ok
          /\ e.p.result = [k \in 1..3 |-> [feature |-> Feature(k)]]

====
